---- MODULE Spec2Model ----
(***************************************************************************)
(* A model of the ProxyOX proxy runtime.                                   *)
(*                                                                         *)
(*  - Spec      : the ProxyManager (src/proxy/manager.py) with the three   *)
(*                registries tcp_proxies / udp_proxies / http_proxies, the *)
(*                start/stop/stop_all/reload operations and the start-up   *)
(*                and reload loader load_config_from_db (src/main.py).     *)
(*  - GateSpec  : the admission path of TCPProxy.handle_client and         *)
(*                HttpProxy.handle_request (IP filter, rate window,        *)
(*                concurrency cap) with its suspension points.             *)
(*  - FilterSpec, LoadSpec : the IPFilter and its two files.              *)
(*  - RouteSpec : the choice of the upstream of an HTTP request.           *)
(*  - RelaySpec, RelayFairSpec : the two relay tasks of a TCP flow.        *)
(*  - UdpSpec   : the UDP frontend.                                        *)
(*  - CaSpec    : the CertificateManager and its directory.                *)
(*  - StopSpec  : stop_proxy on a TCP frontend with flows in flight.       *)
(*  - CookieSpec : the rewriting of the upstream's response headers.       *)
(*  - FlowSpec  : one TCP flow from the dial to its connection record.     *)
(*  - BuildSpec : an HTTP frontend as the start-up load and the single     *)
(*                reload build it from the same rows.                      *)
(***************************************************************************)
EXTENDS Integers, Sequences, FiniteSets, TLC

(***************************************************************************)
(* Bounds of the model.                                                    *)
(***************************************************************************)
\* listen addresses (bind_address, bind_port) a spec may name
MaxPort == 1
\* arrivals counted at the registered runtimes of the manager model
MaxArrivals == 1

\* the gate model: handler tasks alive at once, the largest rate_limit and
\* max_connections a frontend is configured with, the clock's last tick, the
\* clock ticks per second, and the arrivals a frontend counts
NumHandlers == 2
MaxRate == 1
MaxCap == 1
MaxTime == 2
TicksPerSec == 1
MaxSeen == 3
\* the bytes each end of a relayed TCP flow sends
StreamLen == 2
\* the chunks a relay task of the flow model copies
MaxChunks == 2
\* the datagrams a UDP frontend receives
MaxDatagrams == 3
\* the serial numbers the certificate manager draws
MaxSerial == 3
\* the connections a frontend accepts before and while it is stopped
MaxFlows == 3
\* the headers of an upstream response
MaxHeaders == 2

Names == {"a", "b"}
\* list_proxies: ORDER BY name
NameOrder == <<"a", "b">>
Modes == {"tcp", "udp", "http"}
\* the values of a spec's mode: the three create_proxy knows and another one
ModeValues == Modes \cup {"quic"}
\* the backend_address of a spec: None, or "address:port"
NoAddress == "None"
BackendAddresses == {NoAddress, "10.0.0.2:80"}
Ports == 1..MaxPort
IPs == {"198.51.100.7"}
\* the peers of the gate model: a listed address and one that is on no list
ClientIPs == IPs \cup {"203.0.113.9"}
\* the frontends of the gate model: a TCPProxy and an HttpProxy
Frontends == {"tcp", "http"}
Handlers == 1..NumHandlers

VARIABLES
    \* ProxyManager
    tcp_proxies, udp_proxies, http_proxies,
    \* IPFilter (shared by every frontend of the manager)
    blacklist, whitelist, blocked_count,
    \* main(): the start-up load has run
    booted,
    \* history: the last operation called on the manager, and the names
    \* started and not stopped since
    lastOp, live,
    \* time.time(), in ticks
    now,
    \* per frontend of the gate model: its configuration, the deque of the
    \* last arrivals' timestamps and its counters (active_connections /
    \* active_requests, total_*, failed_*, blocked_ips)
    rate_limit, max_connections, rate_limiter, active, total, failed, blocked_ips,
    \* per handler task: where it is suspended, and how its last flow ended
    conn,
    \* history: the admissions of a frontend per tick
    admits,
    \* the IPFilter's files blacklist.json and whitelist.json, and whether
    \* the process that owns the filter is running
    blacklist_file, whitelist_file, alive,
    \* an HttpProxy's routing table and default backend, and the last
    \* request's Host header with what the proxy did for it
    domain_routes, target_host, selection,
    \* one TCP flow: the addresses of listener, client and upstream, the two
    \* relay tasks with what each has written and what has arrived, and the
    \* frontend's byte counters
    peers, relay, bytes_in, bytes_out,
    \* the UDP frontend: the forward tasks it has created, oldest first, and
    \* its packet counters
    forwards, packets_in, packets_out,
    \* the certificate directory: the root key and certificate files, the leaf
    \* files by file stem, the CertificateManager of the running process, the
    \* serial numbers drawn so far, and what generate_certificate last returned
    ca_key_file, ca_cert_file, leaf_files, cert_manager, next_serial, issued,
    \* a TCP frontend being stopped: its asyncio server, the connections it has
    \* accepted, and the position of stop_proxy
    server, flows, stopping,
    \* per frontend of the gate model: the text of the last upstream error
    \* and the frontend's status
    last_error, status,
    \* one HTTP response: whether the frontend terminates TLS, the headers the
    \* upstream sent and the headers handed to the client
    use_https, upstream_headers, client_headers,
    \* one TCP flow of handle_client: the handler, its two relay tasks, the two
    \* stream writers, the chunks relayed and the record ring
    handler, tasks, writers, relayed, connection_history,
    \* the rows of the store for one HTTP frontend, and the frontend as each of the two loaders builds it
    db, built

gateVars == <<now, rate_limit, max_connections, rate_limiter, active, total,
              failed, blocked_ips, conn, admits, last_error, status>>
mgrVars == <<tcp_proxies, udp_proxies, http_proxies, booted, lastOp, live>>
diskVars == <<blacklist_file, whitelist_file, alive>>
\* the variables neither the manager model nor the gate model uses
routeVars == <<domain_routes, target_host, selection>>
relayVars == <<peers, relay, bytes_in, bytes_out>>
udpVars == <<forwards, packets_in, packets_out>>
caVars == <<ca_key_file, ca_cert_file, leaf_files, cert_manager, next_serial, issued>>
stopVars == <<server, flows, stopping>>
cookieVars == <<use_https, upstream_headers, client_headers>>
flowVars == <<handler, tasks, writers, relayed, connection_history>>
buildVars == <<db, built>>
auxVars == <<diskVars, routeVars, relayVars, udpVars, caVars, stopVars, cookieVars, flowVars, buildVars>>
vars == <<tcp_proxies, udp_proxies, http_proxies, blacklist, whitelist,
          blocked_count, booted, lastOp, live, now, rate_limit, max_connections,
          rate_limiter, active, total, failed, blocked_ips, conn, admits,
          last_error, status,
          blacklist_file, whitelist_file, alive,
          domain_routes, target_host, selection,
          peers, relay, bytes_in, bytes_out,
          forwards, packets_in, packets_out,
          ca_key_file, ca_cert_file, leaf_files, cert_manager, next_serial, issued,
          server, flows, stopping,
          use_https, upstream_headers, client_headers,
          handler, tasks, writers, relayed, connection_history,
          db, built>>

(***************************************************************************)
(* Frontend objects (TCPProxy, UDPProxy, HttpProxy).                       *)
(***************************************************************************)
\* __init__: status "stopped", no server/transport/runner, counters 0
NewProxy(port) ==
    [listen_port |-> port, status |-> "stopped", open |-> FALSE, handled |-> 0]

\* start(), the path on which the listener is bound
ProxyStarted(p) == [p EXCEPT !.status = "running", !.open = TRUE]

\* stop(): closes the server / transport / runner and sets status "stopped"
ProxyStop(p) == [p EXCEPT !.status = "stopped", !.open = FALSE]

\* TCP and HTTP listeners are TCP sockets, a UDP frontend binds a UDP socket
Family(m) == IF m = "udp" THEN "udp" ELSE "tcp"

(***************************************************************************)
(* The manager's registries as one value M = [tcp, udp, http, bl, wl].     *)
(***************************************************************************)
Mgr ==
    [tcp |-> tcp_proxies, udp |-> udp_proxies, http |-> http_proxies,
     bl |-> blacklist, wl |-> whitelist]

\* asyncio.start_server / create_datagram_endpoint / TCPSite.start raise
\* OSError when another open listener holds the address
PortFree(M, m, port) ==
    \A k \in Modes :
        Family(k) = Family(m) =>
            \A n \in DOMAIN M[k] :
                ~(M[k][n].open /\ M[k][n].listen_port = port)

\* register_tcp / register_udp / register_http:
\* [mgr: the manager afterwards, raised: start() raised, bound: a listener was bound];
\* target_host is handed to the proxy object and read by no register_*
Register(M, m, name, port, target) ==
    IF name \in DOMAIN M[m]
    THEN [mgr |-> M, raised |-> FALSE, bound |-> FALSE]
    ELSE IF PortFree(M, m, port)
         THEN [mgr |-> [M EXCEPT ![m] = @ @@ (name :> ProxyStarted(NewProxy(port)))],
               raised |-> FALSE, bound |-> TRUE]
         ELSE [mgr |-> M, raised |-> TRUE, bound |-> FALSE]

\* the status of the proxy object when its start() has returned or raised:
\* TCPProxy.start sets "failed" in its except clause, UDPProxy.start and
\* HttpProxy.start have no except clause and leave "stopped"
StartStatus(M, m, port) ==
    IF PortFree(M, m, port) THEN "running"
    ELSE IF m = "tcp" THEN "failed" ELSE "stopped"

\* create_proxy: dispatch on proto; a proto that is none of the three is
\* logged and the call returns
CreateProxy(M, m, name, port, target) ==
    IF m \in Modes THEN Register(M, m, name, port, target)
    ELSE [mgr |-> M, raised |-> FALSE, bound |-> FALSE]

\* start_proxy: backend_address.rsplit(':', 1)[0], None without a backend
TargetHost(backend) == IF backend = NoAddress THEN NoAddress ELSE "10.0.0.2"

\* IPFilter.add_to_blacklist(self, ip) and add_to_whitelist(self, ip) take no
\* "reason" keyword
AddAcceptsReason == FALSE

\* start_proxy: add_to_blacklist(ip, reason=...) for each ip, the same for the
\* whitelist, then create_proxy
StartProxyOn(M, name, m, port, backend, bl, wl) ==
    IF (bl # {} \/ wl # {}) /\ ~AddAcceptsReason
    THEN [mgr |-> M, raised |-> TRUE, bound |-> FALSE]
    ELSE CreateProxy([M EXCEPT !.bl = @ \cup bl, !.wl = @ \cup wl], m, name, port,
                     TargetHost(backend))

\* stop_all: every registered proxy is stopped; no registry is changed
StopAllOn(M) ==
    [M EXCEPT !.tcp = [n \in DOMAIN M.tcp |-> ProxyStop(M.tcp[n])],
              !.udp = [n \in DOMAIN M.udp |-> ProxyStop(M.udp[n])],
              !.http = [n \in DOMAIN M.http |-> ProxyStop(M.http[n])]]

\* stop_proxy written over stop_all: every other proxy is stopped as well
StopProxyOnStoppingAll(M, name) ==
    LET S == StopAllOn(M) IN
    IF name \in DOMAIN S.tcp
    THEN [S EXCEPT !.tcp = [n \in DOMAIN S.tcp \ {name} |-> S.tcp[n]]]
    ELSE IF name \in DOMAIN S.udp
    THEN [S EXCEPT !.udp = [n \in DOMAIN S.udp \ {name} |-> S.udp[n]]]
    ELSE IF name \in DOMAIN S.http
    THEN [S EXCEPT !.http = [n \in DOMAIN S.http \ {name} |-> S.http[n]]]
    ELSE S

\* stop_proxy: the first registry that holds the name
StopProxyOn(M, name) ==
    IF name \in DOMAIN M.tcp
    THEN [M EXCEPT !.tcp = [n \in DOMAIN M.tcp \ {name} |-> M.tcp[n]]]
    ELSE IF name \in DOMAIN M.udp
    THEN [M EXCEPT !.udp = [n \in DOMAIN M.udp \ {name} |-> M.udp[n]]]
    ELSE IF name \in DOMAIN M.http
    THEN [M EXCEPT !.http = [n \in DOMAIN M.http \ {name} |-> M.http[n]]]
    ELSE M

(***************************************************************************)
(* The configuration store: what list_proxies(enabled_only=True) returns,  *)
(* a spec per enabled name. The store's filter rows are drawn for the      *)
(* blacklist; start_proxy treats the whitelist in the same way.            *)
(***************************************************************************)
SpecRecords ==
    [mode : Modes, port : Ports, backend : BackendAddresses, blacklist : SUBSET IPs,
     whitelist : {{}}]

Stores == UNION {[S -> SpecRecords] : S \in SUBSET Names}

\* load_config_from_db: for proxy in proxies: try start_proxy except: log.
\* [mgr, bound: the names whose listener the pass bound, raised: the names
\* whose start_proxy raised]
RECURSIVE LoadFrom(_, _, _)
LoadFrom(acc, D, i) ==
    IF i > Len(NameOrder) THEN acc
    ELSE LET n == NameOrder[i] IN
         IF n \notin DOMAIN D THEN LoadFrom(acc, D, i + 1)
         ELSE LET r == StartProxyOn(acc.mgr, n, D[n].mode, D[n].port, D[n].backend,
                                    D[n].blacklist, D[n].whitelist)
              IN LoadFrom([mgr |-> r.mgr,
                           bound |-> IF r.bound THEN acc.bound \cup {n} ELSE acc.bound,
                           raised |-> IF r.raised THEN acc.raised \cup {n} ELSE acc.raised],
                          D, i + 1)

LoadConfigFromDb(M, D) == LoadFrom([mgr |-> M, bound |-> {}, raised |-> {}], D, 1)

\* the methods MySQLDatabaseManager defines for proxies, backends, routes,
\* filters and settings
DbMethods ==
    {"list_proxies", "get_proxy", "get_proxy_by_name", "list_backends",
     "get_backend", "get_backend_by_name", "list_domain_routes",
     "list_ip_filters", "list_settings", "get_setting"}

\* reload_single_proxy_from_db(proxy_name), row the store's row of that name
\* (NoRow: none): the body of its try block; an exception (a method self.db
\* does not have, a failed bind) leaves the block and is logged
NoRow == [mode |-> "-", port |-> 0, backend |-> NoAddress, blacklist |-> {},
          whitelist |-> {}]

ReloadSingleOn(M, name, row) ==
    IF "get_proxies" \notin DbMethods THEN M
    ELSE IF row = NoRow THEN M
    ELSE IF "get_domain_routes_for_proxy" \notin DbMethods
              \/ row.backend = NoAddress
         THEN StopProxyOn(M, name)
         ELSE CreateProxy(StopProxyOn(M, name), row.mode, name, row.port,
                          TargetHost(row.backend)).mgr

\* reload_from_database: stop_all, then load_config_from_db
ReloadOn(M, D) == LoadConfigFromDb(StopAllOn(M), D)

(***************************************************************************)
(* Views of the registries.                                                *)
(***************************************************************************)
Registered(m, n) == n \in DOMAIN Mgr[m]
RuntimesOf(n) == {m \in Modes : Registered(m, n)}
RuntimesIn(M, n) == {m \in Modes : n \in DOMAIN M[m]}

\* get_stats: the names of the entries of "proxies"
StatsNames == DOMAIN tcp_proxies \cup DOMAIN udp_proxies \cup DOMAIN http_proxies

\* get_proxy_status(name) is not None
HasStatus(n) == n \in DOMAIN tcp_proxies \/ n \in DOMAIN udp_proxies \/ n \in DOMAIN http_proxies

Install(M) ==
    /\ tcp_proxies' = M.tcp
    /\ udp_proxies' = M.udp
    /\ http_proxies' = M.http
    /\ blacklist' = M.bl
    /\ whitelist' = M.wl

(***************************************************************************)
(* Actions of the manager.                                                 *)
(***************************************************************************)
\* ProxyManager.__init__ on an empty data directory
MgrInit ==
    /\ tcp_proxies = <<>>
    /\ udp_proxies = <<>>
    /\ http_proxies = <<>>
    /\ booted = FALSE
    /\ lastOp = [op |-> "init", name |-> "-"]
    /\ live = {}

\* no frontend of the gate model exists
GateOff ==
    /\ now = 0
    /\ rate_limit = <<>>
    /\ max_connections = <<>>
    /\ rate_limiter = <<>>
    /\ active = <<>>
    /\ total = <<>>
    /\ failed = <<>>
    /\ blocked_ips = <<>>
    /\ conn = <<>>
    /\ admits = <<>>
    /\ last_error = <<>>
    /\ status = <<>>

\* self.blocked_count = {}: no address has a count
NoCounts == [ip \in ClientIPs |-> 0]

\* a file that does not exist
NoFile == [state |-> "absent", ips |-> <<>>, blocked_count |-> NoCounts]

\* an empty data directory
DiskOff ==
    /\ blacklist_file = NoFile
    /\ whitelist_file = NoFile
    /\ alive = TRUE

\* HttpProxy(..., target_host=None, domain_routes=None), no request yet
NoBackend == [host |-> "", port |-> 0, https |-> FALSE]

NoRequest == [host |-> <<>>, status |-> "none", upstream |-> NoBackend]

RouteOff ==
    /\ domain_routes = <<>>
    /\ target_host = NoBackend
    /\ selection = NoRequest

\* no flow is being relayed
RelayOff ==
    /\ peers = <<>>
    /\ relay = <<>>
    /\ bytes_in = 0
    /\ bytes_out = 0

\* no datagram has been received
UdpOff ==
    /\ forwards = <<>>
    /\ packets_in = 0
    /\ packets_out = 0

\* a PEM file that does not exist; a key file is identified by the serial
\* number of the certificate generated with it
NoPem == [state |-> "absent", serial |-> 0]

\* generate_certificate has not been called; a call in progress holds its
\* arguments, a call that returned also the subject, the SANs and the serial
\* of the certificate and the key it returned (serial 0: nothing returned)
NoIssue == [hostname |-> <<>>, ip_addresses |-> <<>>, cn |-> <<>>, sans |-> {},
            serial |-> 0, key |-> 0]

\* no certificate directory
CaOff ==
    /\ ca_key_file = NoPem
    /\ ca_cert_file = NoPem
    /\ leaf_files = <<>>
    /\ cert_manager = "down"
    /\ next_serial = 1
    /\ issued = NoIssue

\* no frontend is being stopped
StopOff ==
    /\ server = <<>>
    /\ flows = <<>>
    /\ stopping = "none"

\* no response is being rewritten
CookieOff ==
    /\ use_https = FALSE
    /\ upstream_headers = <<>>
    /\ client_headers = <<>>

\* no flow
FlowOff ==
    /\ handler = "off"
    /\ tasks = <<>>
    /\ writers = <<>>
    /\ relayed = <<>>
    /\ connection_history = <<>>

\* no store has been read
BuildOff ==
    /\ db = <<>>
    /\ built = <<>>

AuxOff == DiskOff /\ RouteOff /\ RelayOff /\ UdpOff /\ CaOff /\ StopOff /\ CookieOff /\ FlowOff /\ BuildOff

Init ==
    /\ MgrInit
    /\ blacklist = {}
    /\ whitelist = {}
    /\ blocked_count = [ip \in ClientIPs |-> 0]
    /\ GateOff
    /\ AuxOff

\* main(): load_config_from_db(manager, db) before the dashboard is served
Boot(D) ==
    /\ ~booted
    /\ booted' = TRUE
    /\ Install(LoadConfigFromDb(Mgr, D).mgr)
    /\ live' = LoadConfigFromDb(Mgr, D).bound
    /\ lastOp' = [op |-> "load", name |-> "-"]
    /\ UNCHANGED <<blocked_count, gateVars, auxVars>>

\* start_proxy(name, mode, bind_address, bind_port, ..., blacklist, whitelist);
\* a start that directly follows stop_proxy(name) completes a restart
StartProxy(name, m, port, backend, bl, wl) ==
    LET r == StartProxyOn(Mgr, name, m, port, backend, bl, wl) IN
    /\ booted
    /\ Install(r.mgr)
    /\ live' = IF r.bound THEN live \cup {name} ELSE live
    /\ lastOp' = [op |-> IF lastOp = [op |-> "stop", name |-> name]
                         THEN "restart" ELSE "start",
                  name |-> name]
    /\ UNCHANGED <<blocked_count, booted, gateVars, auxVars>>

StopProxy(name) ==
    /\ booted
    /\ Install(StopProxyOn(Mgr, name))
    /\ live' = live \ {name}
    /\ lastOp' = [op |-> "stop", name |-> name]
    /\ UNCHANGED <<blocked_count, booted, gateVars, auxVars>>

StopAll ==
    /\ booted
    /\ Install(StopAllOn(Mgr))
    /\ live' = {}
    /\ lastOp' = [op |-> "stop_all", name |-> "-"]
    /\ UNCHANGED <<blocked_count, booted, gateVars, auxVars>>

ReloadFromDatabase(D) ==
    /\ booted
    /\ Install(ReloadOn(Mgr, D).mgr)
    /\ live' = ReloadOn(Mgr, D).bound
    /\ lastOp' = [op |-> "reload", name |-> "-"]
    /\ UNCHANGED <<blocked_count, booted, gateVars, auxVars>>

ReloadSingleProxyFromDb(name, row) ==
    /\ booted
    /\ Install(ReloadSingleOn(Mgr, name, row))
    /\ live' = live
    /\ lastOp' = [op |-> "reload_single", name |-> name]
    /\ UNCHANGED <<blocked_count, booted, gateVars, auxVars>>

\* the arrivals counted at the registered runtimes
RECURSIVE SumHandled(_, _)
SumHandled(d, S) ==
    IF S = {} THEN 0
    ELSE LET n == CHOOSE x \in S : TRUE IN d[n].handled + SumHandled(d, S \ {n})

HandledTotal ==
    SumHandled(tcp_proxies, DOMAIN tcp_proxies)
    + SumHandled(udp_proxies, DOMAIN udp_proxies)
    + SumHandled(http_proxies, DOMAIN http_proxies)

\* a connection, request or datagram reaches the open listener of a runtime
\* and is counted by it
Arrival(m, n) ==
    /\ Registered(m, n)
    /\ Mgr[m][n].open
    /\ HandledTotal < MaxArrivals
    /\ Install([Mgr EXCEPT ![m][n].handled = @ + 1])
    /\ UNCHANGED <<blocked_count, booted, lastOp, live, gateVars, auxVars>>

Next ==
    \/ \E D \in Stores : Boot(D)
    \/ \E n \in Names, m \in ModeValues, p \in Ports, b \in BackendAddresses,
          bl \in SUBSET IPs, wl \in SUBSET IPs :
          StartProxy(n, m, p, b, bl, wl)
    \/ \E n \in Names : StopProxy(n)
    \/ StopAll
    \/ \E D \in Stores : ReloadFromDatabase(D)
    \/ \E n \in Names, row \in SpecRecords \cup {NoRow} : ReloadSingleProxyFromDb(n, row)
    \/ \E m \in Modes, n \in Names : Arrival(m, n)

Spec == Init /\ [][Next]_vars

\* the manager driven by start_proxy and stop_proxy alone (a restart is
\* stop_proxy followed by start_proxy), with traffic
NextRestart ==
    \/ \E D \in Stores : Boot(D)
    \/ \E n \in Names, m \in ModeValues, p \in Ports, b \in BackendAddresses,
          bl \in SUBSET IPs, wl \in SUBSET IPs :
          StartProxy(n, m, p, b, bl, wl)
    \/ \E n \in Names : StopProxy(n)
    \/ \E m \in Modes, n \in Names : Arrival(m, n)

RestartSpec == Init /\ [][NextRestart]_vars

(***************************************************************************)
(* The admission path of a frontend: TCPProxy.handle_client and            *)
(* HttpProxy.handle_request. A handler runs without interruption from one  *)
(* await to the next; each action below is one such stretch.               *)
(***************************************************************************)
\* collections.deque(maxlen=maxlen).append(x)
DequeAppend(dq, x, maxlen) ==
    LET s == Append(dq, x) IN
    IF Len(s) > maxlen THEN SubSeq(s, Len(s) - maxlen + 1, Len(s)) ELSE s

\* len([t for t in rate_limiter if now - t <= 1.0])
RecentConns(dq, t) == Cardinality({i \in 1..Len(dq) : t - dq[i] <= TicksPerSec})

\* is_allowed consulting the blacklist before the whitelist
IsAllowedDenyFirst(ip) ==
    ip \notin blacklist /\ (whitelist = {} \/ ip \in whitelist)

\* IPFilter.is_allowed(ip): its result, and blocked_count after the call
IsAllowed(ip) ==
    IF whitelist # {} THEN ip \in whitelist ELSE ip \notin blacklist

CountBlocked(ip) ==
    IF whitelist = {} /\ ip \in blacklist
    THEN [blocked_count EXCEPT ![ip] = @ + 1]
    ELSE blocked_count

\* the strict form of the test below
CapReachedStrictly(f) == active[f] > max_connections[f]

\* if self.active_connections >= self.max_connections
CapReached(f) == active[f] >= max_connections[f]

\* the checks in the order of the code: IP filter, rate window, cap
Verdict(f, ip) ==
    IF ~IsAllowed(ip) THEN "blocked"
    ELSE IF RecentConns(DequeAppend(rate_limiter[f], now, rate_limit[f]), now) > rate_limit[f]
         THEN "rate"
    ELSE IF CapReached(f) THEN "max"
    ELSE "admit"

\* what the peer of a TCP connection / an HTTP request is left with
Outcome(f, v) ==
    IF f = "tcp"
    THEN CASE v = "blocked" -> "Blocked connection"
           [] v = "rate" -> "Rate limit exceeded"
           [] v = "max" -> "Max connections reached"
           [] OTHER -> "New connection"
    ELSE CASE v = "blocked" -> "403"
           [] v = "rate" -> "429"
           [] v = "max" -> "503"
           [] OTHER -> "reading"

\* the same with total counted before the checks
AdmissionCountingFirst(f, ip) ==
    LET v == Verdict(f, ip) IN
    /\ blocked_count' = CountBlocked(ip)
    /\ rate_limiter' = IF v = "blocked" THEN rate_limiter
                       ELSE [rate_limiter EXCEPT ![f] = DequeAppend(@, now, rate_limit[f])]
    /\ blocked_ips' = IF v = "blocked" THEN [blocked_ips EXCEPT ![f] = @ + 1] ELSE blocked_ips
    /\ failed' = IF v # "admit" THEN [failed EXCEPT ![f] = @ + 1] ELSE failed
    /\ active' = IF v = "admit" THEN [active EXCEPT ![f] = @ + 1] ELSE active
    /\ total' = [total EXCEPT ![f] = @ + 1]
    /\ admits' = IF v = "admit" THEN [admits EXCEPT ![f][now] = @ + 1] ELSE admits

\* the counters and the deque after the checks of one arrival
Admission(f, ip) ==
    LET v == Verdict(f, ip) IN
    /\ blocked_count' = CountBlocked(ip)
    /\ rate_limiter' = IF v = "blocked" THEN rate_limiter
                       ELSE [rate_limiter EXCEPT ![f] = DequeAppend(@, now, rate_limit[f])]
    /\ blocked_ips' = IF v = "blocked" THEN [blocked_ips EXCEPT ![f] = @ + 1] ELSE blocked_ips
    /\ failed' = IF v # "admit" THEN [failed EXCEPT ![f] = @ + 1] ELSE failed
    /\ active' = IF v = "admit" THEN [active EXCEPT ![f] = @ + 1] ELSE active
    /\ total' = IF v = "admit" THEN [total EXCEPT ![f] = @ + 1] ELSE total
    /\ admits' = IF v = "admit" THEN [admits EXCEPT ![f][now] = @ + 1] ELSE admits

mgrOff == <<tcp_proxies, udp_proxies, http_proxies, booted, lastOp, live,
            blacklist, whitelist, rate_limit, max_connections, status>>

\* the bookkeeping of an upstream failure, without the count
UpstreamFailureUncounted(f) ==
    /\ failed' = failed
    /\ last_error' = [last_error EXCEPT ![f] = "upstream"]

\* except Exception as e: failed += 1; self.last_error = str(e)
UpstreamFailure(f) ==
    /\ failed' = [failed EXCEPT ![f] = @ + 1]
    /\ last_error' = [last_error EXCEPT ![f] = "upstream"]

\* handle_client, lines 64-101: up to "await client_writer.wait_closed()" of a
\* rejection or to "await asyncio.open_connection" of an admitted connection
TcpAccept(h, ip) ==
    /\ "tcp" \in DOMAIN active
    /\ conn[h].pc = "idle"
    /\ total["tcp"] + failed["tcp"] < MaxSeen
    /\ Admission("tcp", ip)
    /\ conn' = [conn EXCEPT ![h] =
                  [pc |-> IF Verdict("tcp", ip) = "admit" THEN "tcp_dial" ELSE "tcp_reject",
                   out |-> Outcome("tcp", Verdict("tcp", ip))]]
    /\ UNCHANGED <<mgrOff, auxVars, last_error, now>>

\* wait_closed() of a rejected connection returns: return
TcpRejectClosed(h) ==
    /\ conn[h].pc = "tcp_reject"
    /\ conn' = [conn EXCEPT ![h].pc = "idle"]
    /\ UNCHANGED <<mgrOff, auxVars, last_error, now, blocked_count, rate_limiter, active, total, failed,
                   blocked_ips, admits>>

\* open_connection returns: the two relay tasks are created
TcpDialed(h) ==
    /\ conn[h].pc = "tcp_dial"
    /\ conn' = [conn EXCEPT ![h].pc = "tcp_relay"]
    /\ UNCHANGED <<mgrOff, auxVars, last_error, now, blocked_count, rate_limiter, active, total, failed,
                   blocked_ips, admits>>

\* open_connection raises: failed_connections += 1, close, await wait_closed()
TcpDialFailed(h) ==
    /\ conn[h].pc = "tcp_dial"
    /\ UpstreamFailure("tcp")
    /\ conn' = [conn EXCEPT ![h] = [pc |-> "tcp_failclose", out |-> "failed"]]
    /\ UNCHANGED <<mgrOff, auxVars, now, blocked_count, rate_limiter, active, total,
                   blocked_ips, admits>>

\* ... wait_closed() returns: active_connections -= 1, return
TcpFailClosed(h) ==
    /\ conn[h].pc = "tcp_failclose"
    /\ active' = [active EXCEPT !["tcp"] = @ - 1]
    /\ conn' = [conn EXCEPT ![h].pc = "idle"]
    /\ UNCHANGED <<mgrOff, auxVars, last_error, now, blocked_count, rate_limiter, total, failed,
                   blocked_ips, admits>>

\* asyncio.wait([t1, t2], FIRST_COMPLETED) returns: both relay tasks are
\* cancelled, the writers are closed: await wait_closed() inside try
TcpRelayDone(h) ==
    /\ conn[h].pc = "tcp_relay"
    /\ conn' = [conn EXCEPT ![h].pc = "tcp_close"]
    /\ UNCHANGED <<mgrOff, auxVars, last_error, now, blocked_count, rate_limiter, active, total, failed,
                   blocked_ips, admits>>

\* wait_closed() returns, raises (except Exception: pass) or the task is
\* cancelled there; finally: active_connections -= 1
TcpClosed(h) ==
    /\ conn[h].pc = "tcp_close"
    /\ active' = [active EXCEPT !["tcp"] = @ - 1]
    /\ conn' = [conn EXCEPT ![h] = [pc |-> "idle", out |-> "success"]]
    /\ UNCHANGED <<mgrOff, auxVars, last_error, now, blocked_count, rate_limiter, total, failed,
                   blocked_ips, admits>>

\* the handler task is cancelled while it awaits open_connection (line 118,
\* CancelledError is no Exception), client_writer.wait_closed() of the failed
\* dial (line 130) or asyncio.wait (line 150): none of the three is inside a
\* try with a finally, the handler ends there
TcpCancelled(h) ==
    /\ conn[h].pc \in {"tcp_dial", "tcp_failclose", "tcp_relay"}
    /\ conn' = [conn EXCEPT ![h] = [pc |-> "idle", out |-> "cancelled"]]
    /\ UNCHANGED <<mgrOff, auxVars, last_error, now, blocked_count, rate_limiter, active, total, failed,
                   blocked_ips, admits>>

\* client_writer.wait_closed() of the failed dial (line 130) raises the
\* connection's error (the client has reset it): the handler ends there
TcpFailCloseRaised(h) ==
    /\ conn[h].pc = "tcp_failclose"
    /\ conn' = [conn EXCEPT ![h] = [pc |-> "idle", out |-> "failed"]]
    /\ UNCHANGED <<mgrOff, auxVars, last_error, now, blocked_count, rate_limiter, active, total, failed,
                   blocked_ips, admits>>

\* handle_request, lines 47-87: a rejection returns its response at once, an
\* admitted request runs to "await request.read()"
HttpRequest(h, ip) ==
    /\ "http" \in DOMAIN active
    /\ conn[h].pc = "idle"
    /\ total["http"] + failed["http"] < MaxSeen
    /\ Admission("http", ip)
    /\ conn' = [conn EXCEPT ![h] =
                  [pc |-> IF Verdict("http", ip) = "admit" THEN "http_read" ELSE "idle",
                   out |-> Outcome("http", Verdict("http", ip))]]
    /\ UNCHANGED <<mgrOff, auxVars, last_error, now>>

\* request.read() returns and a backend is chosen: runs to the await of
\* session.request; with no backend for the domain: 502, finally
HttpRead(h, routed) ==
    /\ conn[h].pc = "http_read"
    /\ IF routed
       THEN /\ conn' = [conn EXCEPT ![h] = [pc |-> "http_upstream", out |-> "forwarding"]]
            /\ active' = active
       ELSE /\ conn' = [conn EXCEPT ![h] = [pc |-> "idle", out |-> "502"]]
            /\ active' = [active EXCEPT !["http"] = @ - 1]
    /\ UNCHANGED <<mgrOff, auxVars, last_error, now, blocked_count, rate_limiter, total, failed,
                   blocked_ips, admits>>

\* the upstream answers (its status is passed on), or the exchange raises:
\* failed_requests += 1, 502; finally: active_requests -= 1
HttpResponse(h, ok) ==
    /\ conn[h].pc = "http_upstream"
    /\ active' = [active EXCEPT !["http"] = @ - 1]
    /\ IF ok THEN UNCHANGED <<failed, last_error>> ELSE UpstreamFailure("http")
    /\ conn' = [conn EXCEPT ![h] = [pc |-> "idle", out |-> IF ok THEN "200" ELSE "502"]]
    /\ UNCHANGED <<mgrOff, auxVars, now, blocked_count, rate_limiter, total,
                   blocked_ips, admits>>

\* the handler task is cancelled at request.read() or in the exchange with
\* the upstream, both inside the try; finally: active_requests -= 1
HttpCancelled(h) ==
    /\ conn[h].pc \in {"http_read", "http_upstream"}
    /\ active' = [active EXCEPT !["http"] = @ - 1]
    /\ conn' = [conn EXCEPT ![h] = [pc |-> "idle", out |-> "cancelled"]]
    /\ UNCHANGED <<mgrOff, auxVars, last_error, now, blocked_count, rate_limiter, total, failed,
                   blocked_ips, admits>>

\* time.time() advances
Tick ==
    /\ now < MaxTime
    /\ now' = now + 1
    /\ UNCHANGED <<mgrOff, auxVars, last_error, blocked_count, rate_limiter, active, total, failed,
                   blocked_ips, conn, admits>>

\* a TCPProxy or an HttpProxy built with a rate_limit and a max_connections,
\* with an IPFilter loaded from its files
GateInit ==
    /\ MgrInit
    /\ blacklist \in SUBSET IPs
    /\ whitelist \in SUBSET IPs
    /\ blocked_count = [ip \in ClientIPs |-> 0]
    /\ now = 0
    /\ \E f \in Frontends :
          /\ rate_limit \in [{f} -> 1..MaxRate]
          /\ max_connections \in [{f} -> 1..MaxCap]
          /\ rate_limiter = [g \in {f} |-> <<>>]
          /\ active = [g \in {f} |-> 0]
          /\ total = [g \in {f} |-> 0]
          /\ failed = [g \in {f} |-> 0]
          /\ blocked_ips = [g \in {f} |-> 0]
          /\ admits = [g \in {f} |-> [t \in 0..MaxTime |-> 0]]
          /\ last_error = [g \in {f} |-> "none"]
          /\ status = [g \in {f} |-> "running"]
    /\ conn = [h \in Handlers |-> [pc |-> "idle", out |-> "none"]]
    /\ AuxOff

GateNext ==
    \/ \E h \in Handlers, ip \in ClientIPs : TcpAccept(h, ip)
    \/ \E h \in Handlers : TcpRejectClosed(h)
    \/ \E h \in Handlers : TcpDialed(h)
    \/ \E h \in Handlers : TcpDialFailed(h)
    \/ \E h \in Handlers : TcpFailClosed(h)
    \/ \E h \in Handlers : TcpRelayDone(h)
    \/ \E h \in Handlers : TcpClosed(h)
    \/ \E h \in Handlers : TcpCancelled(h)
    \/ \E h \in Handlers : TcpFailCloseRaised(h)
    \/ \E h \in Handlers : HttpCancelled(h)
    \/ \E h \in Handlers, ip \in ClientIPs : HttpRequest(h, ip)
    \/ \E h \in Handlers, routed \in BOOLEAN : HttpRead(h, routed)
    \/ \E h \in Handlers, ok \in BOOLEAN : HttpResponse(h, ok)
    \/ Tick

GateSpec == GateInit /\ [][GateNext]_vars

(***************************************************************************)
(* The IPFilter and its files (src/proxy/ip_filter.py). A mutation changes *)
(* the set in memory and rewrites the file with open(file, 'w') and        *)
(* json.dump; the process may die between the truncation and the end of    *)
(* the write.                                                              *)
(***************************************************************************)
\* what add_to_blacklist / add_to_whitelist are called with: addresses, and a
\* string ipaddress.ip_address rejects
FilterInputs == ClientIPs \cup {"not-an-address"}

\* list(self.blacklist): the members in some order
RECURSIVE ListOf(_)
ListOf(S) ==
    IF S = {} THEN <<>>
    ELSE LET x == CHOOSE y \in S : TRUE IN <<x>> \o ListOf(S \ {x})

\* set(data.get('ips', []))
SetOf(l) == {l[i] : i \in 1..Len(l)}

\* the file after open(file, 'w') and before json.dump has completed
Torn == [state |-> "torn", ips |-> <<>>, blocked_count |-> NoCounts]

\* _save_blacklist: the file it leaves; crashed: the process died in the write
SaveBlacklist(bl, cnt, crashed) ==
    IF crashed THEN Torn
    ELSE [state |-> "complete", ips |-> ListOf(bl), blocked_count |-> cnt]

\* _save_whitelist
SaveWhitelist(wl, crashed) ==
    IF crashed THEN Torn
    ELSE [state |-> "complete", ips |-> ListOf(wl), blocked_count |-> NoCounts]

\* _load: a missing file, or one json.load rejects, leaves the empty set
LoadIps(file) == IF file.state = "complete" THEN SetOf(file.ips) ELSE {}

LoadCounts(file) == IF file.state = "complete" THEN file.blocked_count ELSE NoCounts

filterOff == <<mgrVars, gateVars, routeVars, relayVars, udpVars, caVars, stopVars, cookieVars, flowVars, buildVars>>

AddToBlacklist(ip, crashed) ==
    /\ alive
    /\ IF ip \in ClientIPs
       THEN /\ blacklist' = blacklist \cup {ip}
            /\ blacklist_file' = SaveBlacklist(blacklist \cup {ip}, blocked_count, crashed)
            /\ alive' = ~crashed
       ELSE UNCHANGED <<blacklist, blacklist_file, alive>>
    /\ UNCHANGED <<filterOff, whitelist, whitelist_file, blocked_count>>

RemoveFromBlacklist(ip, crashed) ==
    /\ alive
    /\ IF ip \in blacklist
       THEN /\ blacklist' = blacklist \ {ip}
            /\ blocked_count' = [blocked_count EXCEPT ![ip] = 0]
            /\ blacklist_file' = SaveBlacklist(blacklist \ {ip},
                                               [blocked_count EXCEPT ![ip] = 0], crashed)
            /\ alive' = ~crashed
       ELSE UNCHANGED <<blacklist, blocked_count, blacklist_file, alive>>
    /\ UNCHANGED <<filterOff, whitelist, whitelist_file>>

ClearBlacklist(crashed) ==
    /\ alive
    /\ blacklist' = {}
    /\ blocked_count' = NoCounts
    /\ blacklist_file' = SaveBlacklist({}, NoCounts, crashed)
    /\ alive' = ~crashed
    /\ UNCHANGED <<filterOff, whitelist, whitelist_file>>

AddToWhitelist(ip, crashed) ==
    /\ alive
    /\ IF ip \in ClientIPs
       THEN /\ whitelist' = whitelist \cup {ip}
            /\ whitelist_file' = SaveWhitelist(whitelist \cup {ip}, crashed)
            /\ alive' = ~crashed
       ELSE UNCHANGED <<whitelist, whitelist_file, alive>>
    /\ UNCHANGED <<filterOff, blacklist, blacklist_file, blocked_count>>

RemoveFromWhitelist(ip, crashed) ==
    /\ alive
    /\ IF ip \in whitelist
       THEN /\ whitelist' = whitelist \ {ip}
            /\ whitelist_file' = SaveWhitelist(whitelist \ {ip}, crashed)
            /\ alive' = ~crashed
       ELSE UNCHANGED <<whitelist, whitelist_file, alive>>
    /\ UNCHANGED <<filterOff, blacklist, blacklist_file, blocked_count>>

ClearWhitelist(crashed) ==
    /\ alive
    /\ whitelist' = {}
    /\ whitelist_file' = SaveWhitelist({}, crashed)
    /\ alive' = ~crashed
    /\ UNCHANGED <<filterOff, blacklist, blacklist_file, blocked_count>>

\* a frontend asks is_allowed(ip): blocked_count changes in memory only
FilterCheck(ip) ==
    /\ alive
    /\ blocked_count[ip] < MaxSeen
    /\ blocked_count' = CountBlocked(ip)
    /\ UNCHANGED <<filterOff, blacklist, whitelist, diskVars>>

\* IPFilter(data_dir) in a new process: __init__ and _load
Construct ==
    /\ ~alive
    /\ alive' = TRUE
    /\ blacklist' = LoadIps(blacklist_file)
    /\ blocked_count' = LoadCounts(blacklist_file)
    /\ whitelist' = LoadIps(whitelist_file)
    /\ UNCHANGED <<filterOff, blacklist_file, whitelist_file>>

FilterInit ==
    /\ MgrInit
    /\ GateOff
    /\ blacklist = {}
    /\ whitelist = {}
    /\ blocked_count = NoCounts
    /\ AuxOff

FilterNext ==
    \/ \E ip \in FilterInputs, crashed \in BOOLEAN : AddToBlacklist(ip, crashed)
    \/ \E ip \in FilterInputs, crashed \in BOOLEAN : RemoveFromBlacklist(ip, crashed)
    \/ \E crashed \in BOOLEAN : ClearBlacklist(crashed)
    \/ \E ip \in FilterInputs, crashed \in BOOLEAN : AddToWhitelist(ip, crashed)
    \/ \E ip \in FilterInputs, crashed \in BOOLEAN : RemoveFromWhitelist(ip, crashed)
    \/ \E crashed \in BOOLEAN : ClearWhitelist(crashed)
    \/ \E ip \in ClientIPs : FilterCheck(ip)
    \/ Construct

FilterSpec == FilterInit /\ [][FilterNext]_vars

\* the documents a data directory may already hold when the program starts:
\* none, one written for an address, one that lists a string that is no
\* address
StoredLists == {<<>>, <<"198.51.100.7">>, <<"not-an-address">>}

StoredFiles ==
    {NoFile} \cup {[state |-> "complete", ips |-> l, blocked_count |-> NoCounts] :
                      l \in StoredLists}

\* a data directory found at start-up, before IPFilter(data_dir) is built
LoadInit ==
    /\ MgrInit
    /\ GateOff
    /\ blacklist = {}
    /\ whitelist = {}
    /\ blocked_count = NoCounts
    /\ RouteOff
    /\ RelayOff
    /\ UdpOff
    /\ CaOff
    /\ StopOff
    /\ CookieOff
    /\ FlowOff
    /\ BuildOff
    /\ blacklist_file \in StoredFiles
    /\ whitelist_file \in StoredFiles
    /\ alive = FALSE

LoadSpec == LoadInit /\ [][FilterNext]_vars


(***************************************************************************)
(* Upstream selection of HttpProxy.handle_request (lines 89-122).          *)
(***************************************************************************)
\* the backends a route or a default may name: host, port, use_https
Backends ==
    {[host |-> "10.0.0.1", port |-> 8080, https |-> FALSE],
     [host |-> "10.0.0.2", port |-> 443, https |-> TRUE]}

\* the domains of the routing table
Domains == {"a.test", "b.test"}

\* Host headers, as the pieces around their colons: none, a bare name, a
\* name with a port, a port alone
HostHeaders ==
    {<<>>, <<"a.test">>, <<"a.test", ":", "8080">>, <<"b.test", ":", "80">>,
     <<"c.test">>, <<":", "80">>}

\* request.headers.get('Host', '').split(':')[0]
RECURSIVE SplitFirst(_, _)
SplitFirst(hdr, i) ==
    IF i > Len(hdr) \/ hdr[i] = ":" THEN <<>>
    ELSE <<hdr[i]>> \o SplitFirst(hdr, i + 1)

HostHeader(hdr) == LET p == SplitFirst(hdr, 1) IN IF p = <<>> THEN "" ELSE p[1]

\* the default backend first, the routes after it
SelectUpstreamDefaultFirst(hdr, routes, default) ==
    LET host_header == HostHeader(hdr)
        backend_config == IF host_header # "" /\ DOMAIN routes # {} /\ host_header \in DOMAIN routes
                          THEN routes[host_header] ELSE NoBackend
    IN IF default.host # ""
       THEN [host |-> hdr, status |-> "forwarded", upstream |-> default]
       ELSE IF backend_config # NoBackend
       THEN [host |-> hdr, status |-> "forwarded", upstream |-> backend_config]
       ELSE [host |-> hdr, status |-> "502", upstream |-> NoBackend]

\* lines 89-122: backend_config from domain_routes, else self.target_host,
\* else 502 "No backend configured for this domain"
SelectUpstream(hdr, routes, default) ==
    LET host_header == HostHeader(hdr)
        backend_config == IF host_header # "" /\ DOMAIN routes # {} /\ host_header \in DOMAIN routes
                          THEN routes[host_header] ELSE NoBackend
    IN IF backend_config # NoBackend
       THEN [host |-> hdr, status |-> "forwarded", upstream |-> backend_config]
       ELSE IF default.host # ""
       THEN [host |-> hdr, status |-> "forwarded", upstream |-> default]
       ELSE [host |-> hdr, status |-> "502", upstream |-> NoBackend]

\* an admitted request with Host header hdr reaches the selection
RouteRequest(hdr) ==
    /\ selection' = SelectUpstream(hdr, domain_routes, target_host)
    /\ UNCHANGED <<mgrVars, gateVars, diskVars, relayVars, udpVars, caVars, stopVars, cookieVars, flowVars, buildVars, blacklist, whitelist,
                   blocked_count, domain_routes, target_host>>

\* HttpProxy.__init__ with a routing table and a default backend, or none
RouteInit ==
    /\ MgrInit
    /\ GateOff
    /\ blacklist = {}
    /\ whitelist = {}
    /\ blocked_count = NoCounts
    /\ DiskOff
    /\ RelayOff
    /\ UdpOff
    /\ CaOff
    /\ StopOff
    /\ CookieOff
    /\ FlowOff
    /\ BuildOff
    /\ domain_routes \in UNION {[S -> Backends] : S \in SUBSET Domains}
    /\ target_host \in Backends \cup {NoBackend}
    /\ selection = NoRequest

RouteNext == \E hdr \in HostHeaders : RouteRequest(hdr)

RouteSpec == RouteInit /\ [][RouteNext]_vars


(***************************************************************************)
(* The two relay tasks of one admitted TCP flow (TCPProxy.relay, and lines *)
(* 147-152 of handle_client).                                              *)
(***************************************************************************)
Directions == {"c2u", "u2c"}

\* listen_host of the frontend; the peer addresses of client and upstream
ListenHosts == {"0.0.0.0", "127.0.0.1"}
PeerHosts == {"127.0.0.1", "192.0.2.10"}

\* the bytes the client sends, and those the upstream sends
Source(d) ==
    IF d = "c2u" THEN [i \in 1..StreamLen |-> i]
    ELSE [i \in 1..StreamLen |-> StreamLen + i]

\* relay(client_reader, upstream_writer) and relay(upstream_reader,
\* client_writer): the peer of the task's writer
WriterPeer(d) == IF d = "c2u" THEN peers.upstream ELSE peers.client

\* the chunk put in front of what was written before
WriteFront(buf, data) == data \o buf

\* writer.write(data)
Write(buf, data) == buf \o data

relayOff == <<mgrVars, gateVars, diskVars, routeVars, udpVars, caVars, stopVars, cookieVars, flowVars, buildVars, blacklist,
              whitelist, blocked_count, peers>>

\* data = await reader.read(4096) returns n bytes; writer.write(data); the
\* task is suspended in await writer.drain()
RelayRead(d, n) ==
    /\ relay[d].pc = "read"
    /\ Len(relay[d].written) + n <= StreamLen
    /\ relay' = [relay EXCEPT
                   ![d].written = Write(@, SubSeq(Source(d), Len(@) + 1, Len(@) + n)),
                   ![d].pending = n,
                   ![d].pc = "drain"]
    /\ UNCHANGED <<relayOff, bytes_in, bytes_out>>

\* drain() returns: the bytes are counted by the address of the writer's peer
RelayDrained(d) ==
    /\ relay[d].pc = "drain"
    /\ IF WriterPeer(d) = peers.listen
       THEN bytes_in' = bytes_in + relay[d].pending /\ bytes_out' = bytes_out
       ELSE bytes_out' = bytes_out + relay[d].pending /\ bytes_in' = bytes_in
    /\ relay' = [relay EXCEPT ![d].pending = 0, ![d].pc = "read"]
    /\ UNCHANGED relayOff

\* read() returns b"" or raises, or drain() raises: the loop is left;
\* finally: writer.close(), await writer.wait_closed()
RelayLeft(d) ==
    /\ relay[d].pc \in {"read", "drain"}
    /\ relay[d].pc = "read" => Len(relay[d].written) = StreamLen
    /\ relay' = [relay EXCEPT ![d].pending = 0, ![d].pc = "closing"]
    /\ UNCHANGED <<relayOff, bytes_in, bytes_out>>

\* wait_closed() returns: the task is complete
RelayClosed(d) ==
    /\ relay[d].pc = "closing"
    /\ relay' = [relay EXCEPT ![d].pc = "done"]
    /\ UNCHANGED <<relayOff, bytes_in, bytes_out>>

\* handle_client after asyncio.wait(FIRST_COMPLETED): t1.cancel(),
\* t2.cancel(); the task still running ends at its await
RelayCancelled(d) ==
    /\ relay[d].pc \in {"read", "drain", "closing"}
    /\ \E e \in Directions \ {d} : relay[e].pc = "done"
    /\ relay' = [relay EXCEPT ![d].pending = 0, ![d].pc = "done"]
    /\ UNCHANGED <<relayOff, bytes_in, bytes_out>>

\* the connection carries the next written byte to the writer's peer
Deliver(d) ==
    /\ Len(relay[d].delivered) < Len(relay[d].written)
    /\ relay' = [relay EXCEPT
                   ![d].delivered = Append(@, relay[d].written[Len(@) + 1])]
    /\ UNCHANGED <<relayOff, bytes_in, bytes_out>>

\* an admitted connection whose upstream has been dialled: lines 147-148
RelayInit ==
    /\ MgrInit
    /\ GateOff
    /\ blacklist = {}
    /\ whitelist = {}
    /\ blocked_count = NoCounts
    /\ DiskOff
    /\ RouteOff
    /\ UdpOff
    /\ CaOff
    /\ StopOff
    /\ CookieOff
    /\ FlowOff
    /\ BuildOff
    /\ peers \in [listen : ListenHosts, client : PeerHosts, upstream : PeerHosts]
    /\ relay = [d \in Directions |->
                  [pc |-> "read", written |-> <<>>, delivered |-> <<>>, pending |-> 0]]
    /\ bytes_in = 0
    /\ bytes_out = 0

RelayNext ==
    \/ \E d \in Directions, n \in 1..StreamLen : RelayRead(d, n)
    \/ \E d \in Directions : RelayDrained(d)
    \/ \E d \in Directions : RelayLeft(d)
    \/ \E d \in Directions : RelayClosed(d)
    \/ \E d \in Directions : RelayCancelled(d)
    \/ \E d \in Directions : Deliver(d)

RelaySpec == RelayInit /\ [][RelayNext]_vars

\* the relay under the event loop's scheduling: what the proxy can do on its
\* own (finish a close, cancel the other task) it does; read() and drain()
\* return when the peers send, take or close, which they need not do
RelayFairSpec ==
    /\ RelayInit
    /\ [][RelayNext]_vars
    /\ WF_vars(\E d \in Directions : RelayClosed(d))
    /\ WF_vars(\E d \in Directions : RelayCancelled(d))

\* both relay tasks wait in reader.read(): no byte is moving on either leg
Idle == DOMAIN relay = Directions /\ \A d \in Directions : relay[d].pc = "read"


(***************************************************************************)
(* The UDP frontend (UDPProxy.Protocol).                                   *)
(***************************************************************************)
\* the addresses datagrams arrive from: two clients and the upstream itself
Senders == {"203.0.113.9:4000", "203.0.113.10:4000", "upstream"}

Payloads == {<<7>>, <<7, 8>>}

udpOff == <<mgrVars, gateVars, diskVars, routeVars, caVars, stopVars, cookieVars, flowVars, buildVars, blacklist, whitelist,
            blocked_count, peers, relay>>

\* datagram_received(data, addr): count, then create_task(self.forward(data)).
\* addr is not handed to the task; the model keeps it as origin only to say
\* where an answer would have to go.
DatagramReceived(data, addr) ==
    /\ Len(forwards) < MaxDatagrams
    /\ bytes_in' = bytes_in + Len(data)
    /\ packets_in' = packets_in + 1
    /\ forwards' = Append(forwards,
                          [data |-> data, origin |-> addr, pc |-> "endpoint",
                           answer |-> "none"])
    /\ UNCHANGED <<udpOff, bytes_out, packets_out>>

\* forward after its await: transport.sendto(data), count, transport.close()
Forward(i) ==
    /\ forwards[i].pc = "endpoint"
    /\ bytes_out' = bytes_out + Len(forwards[i].data)
    /\ packets_out' = packets_out + 1
    /\ forwards' = [forwards EXCEPT ![i].pc = "closed"]
    /\ UNCHANGED <<udpOff, bytes_in, packets_in>>

\* create_datagram_endpoint raises: the task ends with nothing sent
ForwardFailed(i) ==
    /\ forwards[i].pc = "endpoint"
    /\ forwards' = [forwards EXCEPT ![i].pc = "failed"]
    /\ UNCHANGED <<udpOff, bytes_in, bytes_out, packets_in, packets_out>>

\* the upstream answers a forwarded datagram: the socket it was sent from is
\* closed, its protocol was a bare DatagramProtocol, and nothing is sent on
\* the listening transport
UpstreamAnswers(i) ==
    /\ forwards[i].pc = "closed"
    /\ forwards[i].answer = "none"
    /\ forwards' = [forwards EXCEPT ![i].answer = "discarded"]
    /\ UNCHANGED <<udpOff, bytes_in, bytes_out, packets_in, packets_out>>

\* a started UDP frontend
UdpInit ==
    /\ MgrInit
    /\ GateOff
    /\ blacklist = {}
    /\ whitelist = {}
    /\ blocked_count = NoCounts
    /\ DiskOff
    /\ RouteOff
    /\ RelayOff
    /\ UdpOff
    /\ CaOff
    /\ StopOff
    /\ CookieOff
    /\ FlowOff
    /\ BuildOff

UdpNext ==
    \/ \E data \in Payloads, addr \in Senders : DatagramReceived(data, addr)
    \/ \E i \in DOMAIN forwards : Forward(i)
    \/ \E i \in DOMAIN forwards : ForwardFailed(i)
    \/ \E i \in DOMAIN forwards : UpstreamAnswers(i)

UdpSpec == UdpInit /\ [][UdpNext]_vars

(***************************************************************************)
(* The CertificateManager and its directory (src/proxy/cert_manager.py).   *)
(* The process may die at any point; the files stay.                       *)
(***************************************************************************)
\* hostnames as their characters, as far as safe_hostname tells them apart
Hostnames == {<<"localhost">>, <<"proxy", ".", "lan">>, <<"proxy", "_", "lan">>}

\* hostname.replace("*", "wildcard").replace(".", "_")
SafeHostname(h) ==
    [i \in 1..Len(h) |->
        IF h[i] = "*" THEN "wildcard" ELSE IF h[i] = "." THEN "_" ELSE h[i]]

Stems == {SafeHostname(h) : h \in Hostnames}

\* addresses ipaddress.ip_address accepts
SanIps == {"127.0.0.1", "10.0.0.5"}

\* the ip_addresses a certificate is asked for
IpLists == {<<"127.0.0.1">>, <<"127.0.0.1", "10.0.0.5">>,
            <<"127.0.0.1", "not-an-address">>}

\* the IP entries of san_list: those of ip_addresses that parse
IpSans(ips) == {ips[i] : i \in 1..Len(ips)} \cap SanIps

\* the two files of a stem: the certificate (state, subject, SANs, serial,
\* whether _is_cert_valid accepts it) and the key, named by the serial of the
\* certificate it was generated for (0: no key file)
NoLeaf == [state |-> "absent", hostname |-> <<>>, sans |-> {}, serial |-> 0,
           fresh |-> FALSE, key |-> 0]

Exists(file) == file.state # "absent"

caOff == <<mgrVars, gateVars, diskVars, routeVars, relayVars, udpVars, stopVars, cookieVars, flowVars, buildVars, blacklist,
           whitelist, blocked_count>>

\* CertificateManager(cert_dir): both files there, nothing to do; otherwise
\* _generate_ca up to the end of the write of ca.key
CaConstruct ==
    /\ cert_manager = "down"
    /\ IF Exists(ca_cert_file) /\ Exists(ca_key_file)
       THEN /\ cert_manager' = "up"
            /\ UNCHANGED <<ca_key_file, next_serial>>
       ELSE /\ next_serial <= MaxSerial
            /\ ca_key_file' = [state |-> "present", serial |-> next_serial]
            /\ next_serial' = next_serial + 1
            /\ cert_manager' = "generating"
    /\ UNCHANGED <<caOff, ca_cert_file, leaf_files, issued>>

\* _generate_ca: the write of ca.crt
CaWriteCert ==
    /\ cert_manager = "generating"
    /\ ca_cert_file' = [state |-> "present", serial |-> ca_key_file.serial]
    /\ cert_manager' = "up"
    /\ UNCHANGED <<caOff, ca_key_file, leaf_files, next_serial, issued>>

\* the process ends or is killed
CaExit ==
    /\ cert_manager # "down"
    /\ cert_manager' = "down"
    /\ UNCHANGED <<caOff, ca_key_file, ca_cert_file, leaf_files, next_serial, issued>>

\* generate_certificate(hostname, ip_addresses), a synchronous call: the pair
\* of files is returned as it is when both exist and the certificate is
\* valid; otherwise the call runs up to the end of the write of <stem>.key
GenerateCertificate(hostname, ips) ==
    LET stem == SafeHostname(hostname)
        old == leaf_files[stem]
    IN  /\ cert_manager = "up"
        /\ IF Exists(old) /\ old.key # 0 /\ old.fresh
           THEN /\ issued' = [hostname |-> hostname, ip_addresses |-> ips,
                              cn |-> old.hostname, sans |-> old.sans,
                              serial |-> old.serial, key |-> old.key]
                /\ UNCHANGED <<leaf_files, next_serial, cert_manager>>
           ELSE /\ next_serial <= MaxSerial
                /\ leaf_files' = [leaf_files EXCEPT ![stem].key = next_serial]
                /\ next_serial' = next_serial + 1
                /\ issued' = [NoIssue EXCEPT !.hostname = hostname,
                                             !.ip_addresses = ips]
                /\ cert_manager' = "minting"
        /\ UNCHANGED <<caOff, ca_key_file, ca_cert_file>>

\* generate_certificate: the write of <stem>.crt and the return
LeafWriteCert ==
    LET stem == SafeHostname(issued.hostname)
        new == [state |-> "present", hostname |-> issued.hostname,
                sans |-> IpSans(issued.ip_addresses),
                serial |-> leaf_files[stem].key, fresh |-> TRUE,
                key |-> leaf_files[stem].key]
    IN  /\ cert_manager = "minting"
        /\ leaf_files' = [leaf_files EXCEPT ![stem] = new]
        /\ issued' = [issued EXCEPT !.cn = new.hostname, !.sans = new.sans,
                                    !.serial = new.serial, !.key = new.key]
        /\ cert_manager' = "up"
        /\ UNCHANGED <<caOff, ca_key_file, ca_cert_file, next_serial>>

\* time passes: _is_cert_valid no longer accepts the leaf
LeafAges(stem) ==
    /\ Exists(leaf_files[stem])
    /\ leaf_files[stem].fresh
    /\ leaf_files' = [leaf_files EXCEPT ![stem].fresh = FALSE]
    /\ UNCHANGED <<caOff, ca_key_file, ca_cert_file, cert_manager, next_serial, issued>>

\* an empty certificate directory and no process
CaInit ==
    /\ MgrInit
    /\ GateOff
    /\ blacklist = {}
    /\ whitelist = {}
    /\ blocked_count = NoCounts
    /\ DiskOff
    /\ RouteOff
    /\ RelayOff
    /\ UdpOff
    /\ StopOff
    /\ CookieOff
    /\ FlowOff
    /\ BuildOff
    /\ ca_key_file = NoPem
    /\ ca_cert_file = NoPem
    /\ leaf_files = [stem \in Stems |-> NoLeaf]
    /\ cert_manager = "down"
    /\ next_serial = 1
    /\ issued = NoIssue

CaNext ==
    \/ CaConstruct
    \/ CaWriteCert
    \/ CaExit
    \/ \E hostname \in Hostnames, ips \in IpLists : GenerateCertificate(hostname, ips)
    \/ LeafWriteCert
    \/ \E stem \in Stems : LeafAges(stem)

CaSpec == CaInit /\ [][CaNext]_vars

(***************************************************************************)
(* stop_proxy(name) on a registered TCP frontend with connections in       *)
(* flight (ProxyManager.stop_proxy, TCPProxy.stop). Server.wait_closed()   *)
(* returns at once on interpreters before Python 3.12 and waits for every  *)
(* accepted connection to be closed from 3.12 on.                          *)
(***************************************************************************)
FlowIds == 1..MaxFlows

Relaying == {i \in DOMAIN flows : flows[i] = "relaying"}

stopOff == <<mgrVars, gateVars, diskVars, routeVars, relayVars, udpVars, caVars,
             cookieVars, flowVars, buildVars, blacklist, whitelist, blocked_count>>

\* the listener accepts a connection; its handler reaches the relay
FlowAdmitted(i) ==
    /\ server.listening
    /\ flows[i] = "none"
    /\ flows' = [flows EXCEPT ![i] = "relaying"]
    /\ UNCHANGED <<stopOff, server, stopping>>

\* a peer closes: the relay ends and the handler closes both sockets
FlowEnds(i) ==
    /\ flows[i] = "relaying"
    /\ flows' = [flows EXCEPT ![i] = "closed"]
    /\ UNCHANGED <<stopOff, server, stopping>>

\* stop_proxy: self.tcp_proxies[name].stop() up to await wait_closed();
\* server.close() closes the listening socket and no connection
StopCalled ==
    /\ stopping = "none"
    /\ server.registered
    /\ server' = [server EXCEPT !.listening = FALSE]
    /\ stopping' = "wait_closed"
    /\ UNCHANGED <<stopOff, flows>>

\* wait_closed() returns; status = "stopped"; del self.tcp_proxies[name]
WaitClosedReturns ==
    /\ stopping = "wait_closed"
    /\ server.waits_for_connections => Relaying = {}
    /\ server' = [server EXCEPT !.status = "stopped", !.registered = FALSE]
    /\ stopping' = "returned"
    /\ UNCHANGED <<stopOff, flows>>

\* a started and registered TCP frontend
StopInit ==
    /\ MgrInit
    /\ GateOff
    /\ blacklist = {}
    /\ whitelist = {}
    /\ blocked_count = NoCounts
    /\ DiskOff
    /\ RouteOff
    /\ RelayOff
    /\ UdpOff
    /\ CaOff
    /\ CookieOff
    /\ FlowOff
    /\ BuildOff
    /\ \E w \in BOOLEAN :
          server = [listening |-> TRUE, status |-> "running", registered |-> TRUE,
                    waits_for_connections |-> w]
    /\ flows = [i \in FlowIds |-> "none"]
    /\ stopping = "none"

StopNext ==
    \/ \E i \in FlowIds : FlowAdmitted(i)
    \/ \E i \in FlowIds : FlowEnds(i)
    \/ StopCalled
    \/ WaitClosedReturns

\* the event loop runs what is ready: wait_closed() returns when it can;
\* peers are under no obligation to close
StopSpec == StopInit /\ [][StopNext]_vars /\ WF_vars(WaitClosedReturns)

(***************************************************************************)
(* The rewriting of the upstream's response headers                        *)
(* (HttpProxy.handle_request, lines 252-307). A cookie is the sequence of  *)
(* its ';'-separated parts, the first being name=value.                    *)
(***************************************************************************)
Cookies ==
    {<<"sid=1">>, <<"sid=1", "Domain=example.com">>, <<"sid=1", "Secure">>,
     <<"sid=1", "secure">>, <<"sid=Secure1">>}

HeaderItems ==
    {[key |-> "Set-Cookie", value |-> c] : c \in Cookies}
    \cup {[key |-> "Content-Type", value |-> <<"text/html">>],
          [key |-> "Connection", value |-> <<"close">>]}

HeaderLists == UNION {[1..n -> HeaderItems] : n \in 0..MaxHeaders}

\* skip_response_headers, as far as the model's headers go
SkipResponseHeaders == {"Connection"}

\* the parts the pattern ;\s*Domain=[^;]+ matches, case ignored
DomainParts == {"Domain=example.com", "domain=example.com"}

\* 'Secure' in part, for the parts of the model
ContainsSecure(part) == part \in {"Secure", "sid=Secure1"}

\* re.sub(r';\s*Domain=[^;]+', '', cookie_value, flags=re.IGNORECASE)
RECURSIVE StripDomain(_, _)
StripDomain(c, i) ==
    IF i > Len(c) THEN <<>>
    ELSE IF i > 1 /\ c[i] \in DomainParts THEN StripDomain(c, i + 1)
    ELSE <<c[i]>> \o StripDomain(c, i + 1)

\* lines 294-302: the cookie written to response_headers
RewriteCookie(c, https) ==
    LET d == StripDomain(c, 1) IN
    IF https /\ ~(\E i \in 1..Len(d) : ContainsSecure(d[i]))
    THEN Append(d, "Secure") ELSE d

\* response_headers[key] = value on a dict kept as its items in order
DictSet(items, key, value) ==
    IF \E i \in 1..Len(items) : items[i].key = key
    THEN [i \in 1..Len(items) |->
             IF items[i].key = key THEN [key |-> key, value |-> value] ELSE items[i]]
    ELSE Append(items, [key |-> key, value |-> value])

\* for key, value in resp.headers.items(): ...
RECURSIVE ResponseHeaders(_, _, _, _)
ResponseHeaders(hdrs, i, https, acc) ==
    IF i > Len(hdrs) THEN acc
    ELSE IF hdrs[i].key \in SkipResponseHeaders
    THEN ResponseHeaders(hdrs, i + 1, https, acc)
    ELSE IF hdrs[i].key = "Set-Cookie"
    THEN ResponseHeaders(hdrs, i + 1, https,
                         DictSet(acc, hdrs[i].key, RewriteCookie(hdrs[i].value, https)))
    ELSE ResponseHeaders(hdrs, i + 1, https, DictSet(acc, hdrs[i].key, hdrs[i].value))

cookieOff == <<mgrVars, gateVars, diskVars, routeVars, relayVars, udpVars, caVars,
               stopVars, flowVars, buildVars, blacklist, whitelist, blocked_count>>

\* the upstream's response arrives and is handed on
Respond(hdrs) ==
    /\ upstream_headers' = hdrs
    /\ client_headers' = ResponseHeaders(hdrs, 1, use_https, <<>>)
    /\ UNCHANGED <<cookieOff, use_https>>

\* an HttpProxy built with use_https or without
CookieInit ==
    /\ MgrInit
    /\ GateOff
    /\ blacklist = {}
    /\ whitelist = {}
    /\ blocked_count = NoCounts
    /\ DiskOff
    /\ RouteOff
    /\ RelayOff
    /\ UdpOff
    /\ CaOff
    /\ StopOff
    /\ FlowOff
    /\ BuildOff
    /\ use_https \in BOOLEAN
    /\ upstream_headers = <<>>
    /\ client_headers = <<>>

CookieNext == \E hdrs \in HeaderLists : Respond(hdrs)

CookieSpec == CookieInit /\ [][CookieNext]_vars

(***************************************************************************)
(* One TCP flow of TCPProxy.handle_client past the admission checks: the   *)
(* dial, the two relay tasks t1 (client -> upstream) and t2 (upstream ->   *)
(* client), the closing of the two stream writers and the record appended  *)
(* to connection_history.                                                  *)
(***************************************************************************)
RelayTasks == {"t1", "t2"}
Writers == {"client", "upstream"}

\* relay(reader, writer): t1 writes to the upstream, t2 to the client
WriterOf(t) == IF t = "t1" THEN "upstream" ELSE "client"

NoTask == [pc |-> "none", cancel |-> FALSE]

\* the two local counters of handle_client, assigned once and never updated
conn_bytes_in == 0
conn_bytes_out == 0

ConnectionRecord(outcome, bin, bout) ==
    [status |-> outcome, bytes_in |-> bin, bytes_out |-> bout]

flowOff == <<mgrVars, gateVars, diskVars, routeVars, relayVars, udpVars, caVars,
             stopVars, cookieVars, buildVars, blacklist, whitelist, blocked_count>>

\* open_connection returns: the two relay tasks are created and the handler
\* waits for the first of them
FlowDialed ==
    /\ handler = "dial"
    /\ handler' = "wait"
    /\ tasks' = [t \in RelayTasks |-> [pc |-> "loop", cancel |-> FALSE]]
    /\ UNCHANGED <<writers, relayed, connection_history, flowOff>>

\* open_connection raises: client_writer.close(), then wait_closed()
FlowDialFailed ==
    /\ handler = "dial"
    /\ handler' = "failclose"
    /\ writers' = [writers EXCEPT !["client"] = "closed"]
    /\ UNCHANGED <<tasks, relayed, connection_history, flowOff>>

\* wait_closed() returns on the failure path: the 'failed' record
FlowFailClosed ==
    /\ handler = "failclose"
    /\ handler' = "ended"
    /\ connection_history' =
           DequeAppend(connection_history, ConnectionRecord("failed", 0, 0), 100)
    /\ UNCHANGED <<tasks, writers, relayed, flowOff>>

\* wait_closed() raises on the failure path: the exception leaves the handler
FlowFailCloseRaised ==
    /\ handler = "failclose"
    /\ handler' = "ended"
    /\ UNCHANGED <<tasks, writers, relayed, connection_history, flowOff>>

\* one turn of relay's loop: a chunk read, written and drained
TaskRelays(t) ==
    /\ handler # "off"
    /\ tasks[t].pc = "loop"
    /\ ~tasks[t].cancel
    /\ writers[WriterOf(t)] = "open"
    /\ relayed[t] < MaxChunks
    /\ relayed' = [relayed EXCEPT ![t] = @ + 1]
    /\ UNCHANGED <<handler, tasks, writers, connection_history, flowOff>>

\* relay's loop ends (end of stream, or read/write/drain raises): the finally
\* block closes the task's writer and waits for it
TaskLeaves(t) ==
    /\ handler # "off"
    /\ tasks[t].pc = "loop"
    /\ ~tasks[t].cancel
    /\ tasks' = [tasks EXCEPT ![t].pc = "closing"]
    /\ writers' = [writers EXCEPT ![WriterOf(t)] = "closed"]
    /\ UNCHANGED <<handler, relayed, connection_history, flowOff>>

\* wait_closed() of the task's finally block returns or raises: the task is done
TaskClosed(t) ==
    /\ handler # "off"
    /\ tasks[t].pc = "closing"
    /\ ~tasks[t].cancel
    /\ tasks' = [tasks EXCEPT ![t].pc = "done"]
    /\ UNCHANGED <<handler, writers, relayed, connection_history, flowOff>>

\* the CancelledError of t.cancel() reaches the task at its await: in the
\* loop it runs the finally block, in the finally block it ends the task
TaskCancelDelivered(t) ==
    /\ handler # "off"
    /\ tasks[t].cancel
    /\ IF tasks[t].pc = "loop"
         THEN /\ tasks' = [tasks EXCEPT ![t] = [pc |-> "closing", cancel |-> FALSE]]
              /\ writers' = [writers EXCEPT ![WriterOf(t)] = "closed"]
         ELSE /\ tasks' = [tasks EXCEPT ![t] = [pc |-> "done", cancel |-> FALSE]]
              /\ UNCHANGED writers
    /\ UNCHANGED <<handler, relayed, connection_history, flowOff>>

\* asyncio.wait returns: t1.cancel(), t2.cancel(), upstream_writer.close()
HandlerWakes ==
    /\ handler = "wait"
    /\ \E t \in RelayTasks : tasks[t].pc = "done"
    /\ tasks' = [t \in RelayTasks |->
                    IF tasks[t].pc = "done" THEN tasks[t]
                    ELSE [tasks[t] EXCEPT !.cancel = TRUE]]
    /\ writers' = [writers EXCEPT !["upstream"] = "closed"]
    /\ handler' = "close_upstream"
    /\ UNCHANGED <<relayed, connection_history, flowOff>>

\* the record of the finally block
SuccessRecord ==
    DequeAppend(connection_history,
                ConnectionRecord("success", conn_bytes_in, conn_bytes_out), 100)

\* upstream_writer.wait_closed() returns (client_writer.close() follows) or
\* raises (except: pass, then the finally block)
HandlerUpstreamClosed(raised) ==
    /\ handler = "close_upstream"
    /\ IF raised
         THEN /\ handler' = "ended"
              /\ connection_history' = SuccessRecord
              /\ UNCHANGED writers
         ELSE /\ handler' = "close_client"
              /\ writers' = [writers EXCEPT !["client"] = "closed"]
              /\ UNCHANGED connection_history
    /\ UNCHANGED <<tasks, relayed, flowOff>>

\* client_writer.wait_closed() returns or raises: the finally block
HandlerClientClosed ==
    /\ handler = "close_client"
    /\ handler' = "ended"
    /\ connection_history' = SuccessRecord
    /\ UNCHANGED <<tasks, writers, relayed, flowOff>>

\* the handler's task is cancelled at one of its awaits: outside the try
\* block the CancelledError leaves handle_client at once, inside it the
\* finally block still runs
HandlerCancelled ==
    /\ handler \in {"dial", "failclose", "wait", "close_upstream", "close_client"}
    /\ handler' = "ended"
    /\ connection_history' =
           IF handler \in {"close_upstream", "close_client"}
           THEN SuccessRecord ELSE connection_history
    /\ UNCHANGED <<tasks, writers, relayed, flowOff>>

FlowInit ==
    /\ MgrInit
    /\ GateOff
    /\ blacklist = {}
    /\ whitelist = {}
    /\ blocked_count = NoCounts
    /\ DiskOff
    /\ RouteOff
    /\ RelayOff
    /\ UdpOff
    /\ CaOff
    /\ StopOff
    /\ CookieOff
    /\ BuildOff
    /\ handler = "dial"
    /\ tasks = [t \in RelayTasks |-> NoTask]
    /\ writers = [w \in Writers |-> "open"]
    /\ relayed = [t \in RelayTasks |-> 0]
    /\ connection_history = <<>>

FlowNext ==
    \/ FlowDialed
    \/ FlowDialFailed
    \/ FlowFailClosed
    \/ FlowFailCloseRaised
    \/ \E t \in RelayTasks : TaskRelays(t)
    \/ \E t \in RelayTasks : TaskLeaves(t)
    \/ \E t \in RelayTasks : TaskClosed(t)
    \/ \E t \in RelayTasks : TaskCancelDelivered(t)
    \/ HandlerWakes
    \/ \E raised \in BOOLEAN : HandlerUpstreamClosed(raised)
    \/ HandlerClientClosed
    \/ HandlerCancelled

FlowSpec == FlowInit /\ [][FlowNext]_vars

(***************************************************************************)
(* One HTTP frontend as the two loaders build it from the same rows:       *)
(* load_config_from_db (src/main.py) through start_proxy, and the body of  *)
(* reload_single_proxy_from_db (src/proxy/manager.py).                     *)
(***************************************************************************)
\* the rows of the backends table, by id: the table has no use_ssl column
BackendRows ==
    <<[server_address |-> "10.0.0.1", server_port |-> 8080, use_https |-> FALSE],
      [server_address |-> "10.0.0.2", server_port |-> 443, use_https |-> TRUE]>>

\* the row of the proxies table (it has no use_https column; id 0: no default
\* backend) and its rows of the domain_routes table, domain -> backend id
DbStates ==
    [proxy : [use_ssl : BOOLEAN, default_backend_id : 0..Len(BackendRows)],
     routes : UNION {[S -> DOMAIN BackendRows] : S \in SUBSET Domains}]

\* dict.get(key, default)
DictGet(d, key, default) == IF key \in DOMAIN d THEN d[key] ELSE default

\* handle_request reads host, port and get('https', False) of a route
RouteEntry(d) ==
    [host |-> d.host, port |-> d.port, https |-> DictGet(d, "https", FALSE)]

\* a loader that was not called, and one that started no frontend
NotCalled ==
    [called |-> FALSE, started |-> FALSE, target |-> NoBackend,
     domain_routes |-> <<>>, use_https |-> FALSE]
NotStarted == [NotCalled EXCEPT !.called = TRUE]

\* load_config_from_db and start_proxy: the default backend with
\* backend_https = proxy use_ssl, routes with 'https' = backend use_https,
\* listener TLS = proxy use_ssl
LoadedFrontend(D) ==
    LET id == D.proxy.default_backend_id IN
    [called |-> TRUE, started |-> TRUE,
     target |-> IF id = 0 THEN NoBackend
                ELSE [host |-> BackendRows[id].server_address,
                      port |-> BackendRows[id].server_port,
                      https |-> DictGet(D.proxy, "use_ssl", FALSE)],
     domain_routes |->
         [d \in DOMAIN D.routes |->
             [host |-> BackendRows[D.routes[d]].server_address,
              port |-> BackendRows[D.routes[d]].server_port,
              https |-> DictGet(BackendRows[D.routes[d]], "use_https", FALSE)]],
     use_https |-> DictGet(D.proxy, "use_ssl", FALSE)]

\* reload_single_proxy_from_db from "Get backend and domain routes" on:
\* nothing is created without a default backend; backend_https = backend
\* use_ssl, routes with 'use_https' = backend use_ssl, listener TLS = proxy
\* use_https
ReloadBody(D) ==
    LET id == D.proxy.default_backend_id IN
    IF id = 0 THEN NotStarted
    ELSE [called |-> TRUE, started |-> TRUE,
          target |-> [host |-> BackendRows[id].server_address,
                      port |-> BackendRows[id].server_port,
                      https |-> DictGet(BackendRows[id], "use_ssl", FALSE)],
          domain_routes |->
              [d \in DOMAIN D.routes |->
                  [host |-> BackendRows[D.routes[d]].server_address,
                   port |-> BackendRows[D.routes[d]].server_port,
                   use_https |-> DictGet(BackendRows[D.routes[d]], "use_ssl", FALSE)]],
          use_https |-> DictGet(D.proxy, "use_https", FALSE)]

\* reload_single_proxy_from_db: its try block ends at the first method that
\* self.db does not have
ReloadedFrontend(D) ==
    IF "get_proxies" \notin DbMethods \/ "get_domain_routes_for_proxy" \notin DbMethods
    THEN NotStarted
    ELSE ReloadBody(D)

\* the upstream a started frontend selects for a Host header
Resolve(cfg, hdr) ==
    SelectUpstream(hdr,
                   [d \in DOMAIN cfg.domain_routes |-> RouteEntry(cfg.domain_routes[d])],
                   cfg.target)

buildOff == <<mgrVars, gateVars, diskVars, routeVars, relayVars, udpVars, caVars,
              stopVars, cookieVars, flowVars, blacklist, whitelist, blocked_count>>

\* main(): load_config_from_db starts the frontend
LoadBuilds ==
    /\ ~built["load"].called
    /\ built' = [built EXCEPT !["load"] = LoadedFrontend(db)]
    /\ UNCHANGED <<db, buildOff>>

\* the dashboard calls reload_single_proxy_from_db for the frontend
ReloadSingleBuilds ==
    /\ ~built["reload_single"].called
    /\ built' = [built EXCEPT !["reload_single"] = ReloadedFrontend(db)]
    /\ UNCHANGED <<db, buildOff>>

BuildInit ==
    /\ MgrInit
    /\ GateOff
    /\ blacklist = {}
    /\ whitelist = {}
    /\ blocked_count = NoCounts
    /\ DiskOff
    /\ RouteOff
    /\ RelayOff
    /\ UdpOff
    /\ CaOff
    /\ StopOff
    /\ CookieOff
    /\ FlowOff
    /\ db \in DbStates
    /\ built = [k \in {"load", "reload_single"} |-> NotCalled]

BuildNext ==
    \/ LoadBuilds
    \/ ReloadSingleBuilds

BuildSpec == BuildInit /\ [][BuildNext]_vars

(***************************************************************************)
(* Properties.                                                             *)
(***************************************************************************)
\* C1: under any interleaving of connection arrivals and completions on one
\* frontend, the number of flows in flight (active_connections /
\* active_requests) never exceeds the frontend's max_connections: two
\* arrivals that both find the last free slot are not both admitted.
C1_InFlightBounded ==
    \A f \in DOMAIN active : active[f] <= max_connections[f]

\* C1, its case: every slot of a frontend is taken by a flow still in
\* progress while another arrival has been turned away for capacity.
C1_Witness ==
    \E f \in DOMAIN active :
        /\ active[f] = max_connections[f]
        /\ \E h \in DOMAIN conn : conn[h].pc \notin {"idle", "tcp_reject"}
        /\ \E h \in DOMAIN conn : conn[h].out \in {"Max connections reached", "503"}

RECURSIVE AdmitsIn(_, _, _)
AdmitsIn(f, from, to) ==
    IF from > to \/ from > MaxTime THEN 0
    ELSE admits[f][from] + AdmitsIn(f, from + 1, to)

\* C2: with rate limit r, a frontend admits at most r + 1 arrivals in any
\* window of one second (three connects at once with r = 2 give exactly two
\* admissions); the others are rejected as rate limited.
C2_RateWindow ==
    \A f \in DOMAIN admits :
        \A t \in 0..MaxTime :
            AdmitsIn(f, t, t + TicksPerSec) <= rate_limit[f] + 1

\* C3: after a full reload in which no start failed, every spec of the
\* desired set has a running runtime of its mode, and no runtime is
\* registered under a name outside the desired set.
C3_ReloadReachesDesired ==
    [][\A D \in Stores :
          (ReloadFromDatabase(D) /\ ReloadOn(Mgr, D).raised = {})
          => /\ \A n \in DOMAIN D :
                  /\ n \in DOMAIN Mgr'[D[n].mode]
                  /\ Mgr'[D[n].mode][n].status = "running"
             /\ \A n \in Names \ DOMAIN D : RuntimesIn(Mgr', n) = {}]_vars

\* C4: a runtime is registered under a name exactly when the name has been
\* started and not stopped since, whatever sequence of start, stop,
\* stop_all, reload_single and reload has run.
C4_RegisteredIffLive ==
    \A n \in Names : (RuntimesOf(n) # {}) <=> (n \in live)

\* C5: at most one runtime is registered under a name, across all modes.
C5_OneRuntimePerName ==
    \A n \in Names : Cardinality(RuntimesOf(n)) <= 1

\* C6: start is idempotent: after start(spec) whose bind did not fail, exactly
\* one runtime is registered under the name, and a second start(spec) changes
\* nothing, the IP filter's sets included.
C6_StartIdempotent ==
    [][\A n \in Names, m \in Modes, p \in Ports, b \in BackendAddresses,
          bl \in SUBSET IPs, wl \in SUBSET IPs :
          (StartProxy(n, m, p, b, bl, wl) /\ (n \in DOMAIN Mgr[m] \/ PortFree(Mgr, m, p)))
          => /\ Cardinality(RuntimesIn(Mgr', n)) = 1
             /\ StartProxyOn(Mgr', n, m, p, b, bl, wl).mgr = Mgr']_vars

\* C7: once stop(name) has returned for a registered name, nothing is
\* registered under the name (no stats entry, no status, no listener), and no
\* later arrival is counted by a runtime of a stopped name.
C7_StopRemoves ==
    [][/\ \A n \in Names :
             (StopProxy(n) /\ RuntimesOf(n) # {}) => RuntimesIn(Mgr', n) = {}
       /\ \A m \in Modes, n \in Names : Arrival(m, n) => n \in live]_vars

\* C8: stopping and starting frontend A (a restart) leaves every runtime of
\* every other frontend B as it was: registered, running, its counters
\* unchanged, in the state between the stop and the start as well.
C8_RestartLeavesOthers ==
    [][\A A \in Names :
          (StopProxy(A)
           \/ \E m \in Modes, p \in Ports, b \in BackendAddresses,
                 bl \in SUBSET IPs, wl \in SUBSET IPs :
                 StartProxy(A, m, p, b, bl, wl))
          => \A B \in Names \ {A}, k \in Modes :
                /\ (B \in DOMAIN Mgr[k]) <=> (B \in DOMAIN Mgr'[k])
                /\ B \in DOMAIN Mgr[k] => Mgr'[k][B] = Mgr[k][B]]_vars

\* C8, its case: "a" has been stopped and started again while "b" is
\* registered, running, and has counted traffic.
C8_Witness ==
    /\ lastOp = [op |-> "restart", name |-> "a"]
    /\ RuntimesOf("a") # {}
    /\ \E k \in Modes :
          /\ Registered(k, "b")
          /\ Mgr[k]["b"].status = "running"
          /\ Mgr[k]["b"].handled > 0

\* C9: reload_single(name) for a name whose row the store holds (and whose
\* address is free once the old runtime is stopped) leaves a runtime of the
\* row's mode running on the row's port, and touches no other name.
C9_ReloadSingleApplies ==
    [][\A n \in Names, row \in SpecRecords :
          (ReloadSingleProxyFromDb(n, row)
           /\ PortFree(StopProxyOn(Mgr, n), row.mode, row.port))
          => /\ n \in DOMAIN Mgr'[row.mode]
             /\ Mgr'[row.mode][n].status = "running"
             /\ Mgr'[row.mode][n].listen_port = row.port
             /\ \A B \in Names \ {n}, k \in Modes :
                   /\ (B \in DOMAIN Mgr[k]) <=> (B \in DOMAIN Mgr'[k])
                   /\ B \in DOMAIN Mgr[k] => Mgr'[k][B] = Mgr[k][B]]_vars

\* the registries hold exactly the desired set D, every runtime running
Reconciled(M, D) ==
    \A n \in Names, m \in Modes :
        /\ (n \in DOMAIN M[m]) <=> (n \in DOMAIN D /\ D[n].mode = m)
        /\ n \in DOMAIN M[m] =>
              /\ M[m][n].status = "running"
              /\ M[m][n].listen_port = D[n].port

\* C10: reconciliation is idempotent: a reload whose desired set is the one
\* the runtimes already realise changes nothing.
C10_ReloadIdempotent ==
    [][\A D \in Stores :
          (Reconciled(Mgr, D) /\ ReloadFromDatabase(D))
          => UNCHANGED <<tcp_proxies, udp_proxies, http_proxies, blacklist, whitelist>>]_vars

\* C11: a failure to start one frontend during a reconciliation pass (the
\* start-up load or a full reload) does not abort the pass: every other
\* frontend of the desired set is running when the pass ends, wherever the
\* failing frontend stands in the list.
C11_FailureIsolated ==
    [][\A D \in Stores :
          /\ (Boot(D) /\ LoadConfigFromDb(Mgr, D).raised # {})
                => \A n \in DOMAIN D \ LoadConfigFromDb(Mgr, D).raised :
                      /\ n \in DOMAIN Mgr'[D[n].mode]
                      /\ Mgr'[D[n].mode][n].status = "running"
          /\ (ReloadFromDatabase(D) /\ ReloadOn(Mgr, D).raised # {})
                => \A n \in DOMAIN D \ ReloadOn(Mgr, D).raised :
                      /\ n \in DOMAIN Mgr'[D[n].mode]
                      /\ Mgr'[D[n].mode][n].status = "running"]_vars

\* C12: the IP filter admits an address, with a non-empty whitelist, exactly
\* when the address is on the whitelist, and then leaves blocked_count alone;
\* with an empty whitelist it denies a blacklisted address and adds exactly
\* one to blocked_count of that address, and admits any other address
\* changing nothing.
C12_AllowPredicate ==
    [][\A h \in Handlers, ip \in ClientIPs :
          (TcpAccept(h, ip) \/ HttpRequest(h, ip))
          => LET denied == blocked_ips' # blocked_ips IN
             IF whitelist # {}
             THEN (denied <=> ip \notin whitelist) /\ blocked_count' = blocked_count
             ELSE IF ip \in blacklist
             THEN denied /\ blocked_count' = [blocked_count EXCEPT ![ip] = @ + 1]
             ELSE ~denied /\ blocked_count' = blocked_count]_vars

\* C12, its case: with no whitelist, a blacklisted address has been denied
\* once by a frontend and counted once.
C12_Witness ==
    /\ whitelist = {}
    /\ \E ip \in blacklist : blocked_count[ip] = 1
    /\ \E f \in DOMAIN blocked_ips : blocked_ips[f] = 1

C14_Durable ==
    /\ alive => /\ LoadIps(blacklist_file) = blacklist
                /\ LoadIps(whitelist_file) = whitelist
    /\ blacklist_file.state # "torn"
    /\ whitelist_file.state # "torn"

\* the admitted flows of frontend f that have not reached their end
InProgress(f) ==
    {h \in DOMAIN conn :
        conn[h].pc \in (IF f = "tcp"
                        THEN {"tcp_dial", "tcp_failclose", "tcp_relay", "tcp_close"}
                        ELSE {"http_read", "http_upstream"})}

\* C15: the active counter of a frontend is never negative and always equals
\* the number of admitted flows that have not yet terminated: one increment at
\* admission, one decrement on whichever path ends the flow (failed dial,
\* end of relay, error while closing, cancellation of the handler).
C15_ActiveExact ==
    \A f \in DOMAIN active :
        active[f] >= 0 /\ active[f] = Cardinality(InProgress(f))

\* C20: an arrival rejected by the IP filter, the rate window or the cap
\* causes no upstream dial or request and adds nothing to active or total;
\* HTTP answers 403 for the filter, 429 for the rate, 503 for the cap, and TCP
\* closes the client socket and returns.
C20_RejectionIsFast ==
    [][/\ \A h \in Handlers, ip \in ClientIPs :
             (HttpRequest(h, ip) /\ failed' # failed)
             => /\ active' = active /\ total' = total
                /\ conn'[h].pc = "idle"
                /\ conn'[h].out =
                      IF ~IsAllowed(ip) THEN "403"
                      ELSE IF RecentConns(rate_limiter'["http"], now) > rate_limit["http"]
                           THEN "429" ELSE "503"
       /\ \A h \in Handlers, ip \in ClientIPs :
             (TcpAccept(h, ip) /\ failed' # failed)
             => /\ active' = active /\ total' = total
                /\ conn'[h].pc = "tcp_reject"
       /\ \A h \in DOMAIN conn :
             conn[h].pc = "tcp_reject"
             => /\ conn'[h].pc \in {"tcp_reject", "idle"}
                /\ conn'[h] # conn[h] => active' = active /\ total' = total]_vars

\* C20, its case: a frontend has turned arrivals away, for the filter and
\* for the cap, and has counted only the admitted ones.
C20_Witness ==
    \E f \in DOMAIN failed :
        /\ blocked_ips[f] = 1
        /\ failed[f] = 2
        /\ total[f] = 1
        /\ active[f] = 1
        /\ \E h \in DOMAIN conn : conn[h].out \in {"503", "Max connections reached"}

\* C19: for a request whose Host, port stripped, is h: an exact entry for h in
\* domain_routes gives the upstream (host, port, TLS) of that entry; with no
\* entry, a default backend is used if one is set; otherwise the client gets
\* 502 and no upstream request is made.
C19_UpstreamSelection ==
    selection # NoRequest =>
        LET h == IF selection.host = <<>> \/ selection.host[1] = ":" THEN "" ELSE selection.host[1] IN
        IF h \in DOMAIN domain_routes
        THEN selection.status = "forwarded" /\ selection.upstream = domain_routes[h]
        ELSE IF target_host # NoBackend
        THEN selection.status = "forwarded" /\ selection.upstream = target_host
        ELSE selection.status = "502" /\ selection.upstream = NoBackend

\* C19, its case: a request for a selection domain, sent with a port in its
\* Host header, went to the route's backend while a different default is set.
C19_Witness ==
    /\ selection.host = <<"a.test", ":", "8080">>
    /\ "a.test" \in DOMAIN domain_routes
    /\ target_host # NoBackend
    /\ target_host # domain_routes["a.test"]
    /\ selection.upstream = domain_routes["a.test"]

\* s is an initial part of t
IsPrefix(s, t) == Len(s) <= Len(t) /\ \A i \in 1..Len(s) : s[i] = t[i]

\* C17: in each direction of a TCP flow, the bytes that have arrived at the
\* destination are at every moment a prefix of the bytes read from the
\* source, in the same order: none reordered, duplicated or skipped; what is
\* missing at close is what was still in flight.
C17_OrderedPrefix ==
    \A d \in DOMAIN relay :
        /\ IsPrefix(relay[d].delivered, relay[d].written)
        /\ IsPrefix(relay[d].written, Source(d))

\* C17, its case: the flow has ended with every byte of both directions
\* relayed and arrived.
C17_Witness ==
    /\ DOMAIN relay = Directions
    /\ \A d \in Directions :
          relay[d].pc = "done" /\ relay[d].delivered = Source(d)

\* C18: whatever the addresses of client, listener and upstream, once every
\* relayed byte has been counted, bytes_in is the number of bytes relayed
\* from client to upstream and bytes_out the number relayed from upstream to
\* client.
C18_BytesByDirection ==
    (DOMAIN relay = Directions
     /\ bytes_in + bytes_out = Len(relay["c2u"].written) + Len(relay["u2c"].written))
    => /\ bytes_in = Len(relay["c2u"].written)
       /\ bytes_out = Len(relay["u2c"].written)

\* C16: an answer the upstream gives to a forwarded datagram is delivered to
\* the address that sent the datagram: no forwarded datagram's answer is
\* lost inside the frontend.
C16_AnswerToOrigin ==
    \A i \in DOMAIN forwards :
        forwards[i].answer # "none" => forwards[i].answer = forwards[i].origin

\* C21: a start-up of the certificate manager generates the root only when
\* neither root file exists, leaves both files as they are when both exist,
\* and does not come up at all when exactly one of them exists.
C21_RootOnce ==
    [][(cert_manager = "down" /\ cert_manager' # "down")
       => \/ ~Exists(ca_key_file) /\ ~Exists(ca_cert_file)
          \/ /\ Exists(ca_key_file) /\ Exists(ca_cert_file)
             /\ UNCHANGED <<ca_key_file, ca_cert_file>>]_vars

\* C22: in every state of the certificate directory the root key file and
\* the root certificate file both exist or both do not.
C22_NoHalfRoot == Exists(ca_key_file) <=> Exists(ca_cert_file)

\* C23: the leaf returned for (hostname, ip_addresses) carries exactly the
\* requested IP addresses as SANs, also when a leaf for the same hostname
\* with other SANs is cached.
C23_LeafPerSanSet ==
    issued.serial # 0 => issued.sans = IpSans(issued.ip_addresses)

\* C24: a stop that has been called returns, and when it has returned no
\* connection admitted by the frontend is still relaying and the runtime is
\* removed from the registry.
C24_StopBounded ==
    (stopping = "wait_closed")
        ~> (stopping = "returned" /\ Relaying = {} /\ ~server.registered)

\* C25: a TCP flow does not stay idle for ever: when both legs wait for
\* bytes and the peers neither send nor close, the proxy itself ends the
\* flow.
C25_IdleFlowEnds == []<>(~Idle)

RECURSIVE ValuesOf(_, _, _)
ValuesOf(hdrs, key, i) ==
    IF i > Len(hdrs) THEN <<>>
    ELSE IF hdrs[i].key = key THEN <<hdrs[i].value>> \o ValuesOf(hdrs, key, i + 1)
    ELSE ValuesOf(hdrs, key, i + 1)

\* a cookie has a Secure attribute (attribute names do not depend on case)
HasSecure(c) == \E i \in 2..Len(c) : c[i] \in {"Secure", "secure"}

\* C27: the client receives one Set-Cookie header per Set-Cookie header of
\* the upstream, in order, each without its Domain attribute and, on a
\* TLS-terminating frontend, with Secure appended exactly when the cookie
\* had no Secure attribute.
C27_CookiesRewritten ==
    LET up == ValuesOf(upstream_headers, "Set-Cookie", 1)
        down == ValuesOf(client_headers, "Set-Cookie", 1)
    IN  /\ Len(down) = Len(up)
        /\ \A i \in 1..Len(up) :
              LET d == StripDomain(up[i], 1) IN
              i <= Len(down) =>
                 down[i] = IF use_https /\ ~HasSecure(d) THEN Append(d, "Secure") ELSE d

\* C28: every member of the blacklist and of the whitelist is a valid IP
\* address, however it entered: by an add or from the persisted file.
C28_MembersValid ==
    /\ blacklist \subseteq ClientIPs
    /\ whitelist \subseteq ClientIPs

\* C29: when the listener of a frontend that is not registered cannot be
\* bound, start raises, the frontend's state is failed, and no runtime is
\* registered under the name, whatever the mode; a later start of the name
\* with the address free binds it.
C29_FailedBindLeavesNothing ==
    \A n \in Names, m \in Modes, p \in Ports, b \in BackendAddresses :
        (booted /\ RuntimesOf(n) = {} /\ ~PortFree(Mgr, m, p)) =>
            LET r == StartProxyOn(Mgr, n, m, p, b, {}, {}) IN
            /\ r.raised
            /\ RuntimesIn(r.mgr, n) = {}
            /\ StartStatus(Mgr, m, p) = "failed"
            /\ \A M \in {StopAllOn(r.mgr)} : StartProxyOn(M, n, m, p, b, {}, {}).bound

\* C30: of the datagrams that arrive at a UDP frontend within one second
\* (here: all of them, no time passes in between) at most rate_limit + 1 are
\* sent upstream, for every rate_limit the frontend can be started with.
C30_DatagramsRateGated ==
    \A rate \in 1..MaxRate : packets_out <= rate + 1

\* C31: an arrival turned away because the cap is reached leaves the
\* frontend's log of arrival times (rate_limiter) as it was.
C31_CapBeforeRate ==
    [][\A f \in DOMAIN active, h \in Handlers, ip \in ClientIPs :
          (Verdict(f, ip) = "max" /\ (TcpAccept(h, ip) \/ HttpRequest(h, ip)))
          => rate_limiter' = rate_limiter]_vars

\* C32: once one of the two relay tasks of a flow has returned and the
\* handler has ended, the other task has been cancelled or has left its loop,
\* both stream writers have been closed, and the ring holds exactly one record
\* of the flow.
C32_OneRecordPerFlow ==
    (handler = "ended" /\ \E t \in RelayTasks : tasks[t].pc = "done")
    => /\ \A t \in RelayTasks : tasks[t].pc # "loop" \/ tasks[t].cancel
       /\ \A t \in RelayTasks :
              writers[WriterOf(t)] = "closed" \/ tasks[t].cancel
       /\ Len(connection_history) = 1

\* C32 with the handler's task never cancelled at asyncio.wait: the same
\* statement for the flows whose handler ran on after the wait.
C32_UncancelledFlows ==
    (handler = "ended" /\ \E t \in RelayTasks : tasks[t].pc = "done"
        /\ connection_history # <<>>)
    => /\ \A t \in RelayTasks : tasks[t].pc # "loop" \/ tasks[t].cancel
       /\ \A t \in RelayTasks :
              writers[WriterOf(t)] = "closed" \/ tasks[t].cancel
       /\ Len(connection_history) = 1

\* C33: the record of a relayed flow carries the bytes the flow itself moved
\* in each direction.
C33_RecordCarriesBytes ==
    \A i \in 1..Len(connection_history) :
        connection_history[i].status = "success"
        => /\ connection_history[i].bytes_in = relayed["t1"]
           /\ connection_history[i].bytes_out = relayed["t2"]


\* C34: requests for one (hostname, ip_addresses) are answered one after the
\* other from one issuance, and in every state the key file and the
\* certificate file of a stem come from the same issuance.
C34_OneIssuance ==
    \A stem \in DOMAIN leaf_files :
        (Exists(leaf_files[stem]) /\ leaf_files[stem].key # 0)
        => leaf_files[stem].key = leaf_files[stem].serial

\* C34, the second request alone: a request equal to the one last answered,
\* made while that leaf is on disk and valid, writes nothing and is answered
\* with the certificate and key of the first.
C34_SecondRequestReuses ==
    [][\A h \in Hostnames, ips \in IpLists :
          (/\ GenerateCertificate(h, ips)
           /\ issued.serial # 0
           /\ issued.hostname = h
           /\ issued.ip_addresses = ips
           /\ leaf_files[SafeHostname(h)].serial = issued.serial
           /\ leaf_files[SafeHostname(h)].fresh)
          => (leaf_files' = leaf_files /\ issued' = issued)]_vars

\* C40: the certificate returned for hostname h has subject CN = h, also when
\* another hostname with the same file stem was issued first.
C40_LeafNamesItsHost ==
    issued.serial # 0 => issued.cn = issued.hostname


\* C35: start_proxy of an unregistered name on a free address with a
\* non-empty blacklist or whitelist puts every address on the filter's list
\* and leaves the runtime registered and running, and a blacklisted address
\* is refused.
C35_ListsThenStart ==
    [][\A n \in Names, m \in Modes, p \in Ports, b \in BackendAddresses,
          bl \in SUBSET IPs, wl \in SUBSET IPs :
          (/\ StartProxy(n, m, p, b, bl, wl)
           /\ bl \cup wl # {}
           /\ RuntimesOf(n) = {}
           /\ PortFree(Mgr, m, p))
          => /\ bl \subseteq blacklist' /\ wl \subseteq whitelist'
             /\ n \in DOMAIN Mgr'[m]
             /\ Mgr'[m][n].status = "running"
             /\ \A ip \in bl : whitelist' = {} => ~IsAllowed(ip)']_vars

\* C36: start_proxy of a TCP spec that has no default backend binds no
\* listener and registers no runtime.
C36_TcpNeedsBackend ==
    [][\A n \in Names, p \in Ports, bl \in SUBSET IPs, wl \in SUBSET IPs :
          (StartProxy(n, "tcp", p, NoAddress, bl, wl) /\ n \notin DOMAIN tcp_proxies)
          => (n \notin DOMAIN tcp_proxies' /\ live' = live)]_vars

\* C38: whenever start_proxy returns (it did not raise), a runtime of the
\* given mode is registered under the name with status "running", for every
\* mode value and every state of the registries before the call.
C38_ReturnMeansRunning ==
    [][\A n \in Names, m \in ModeValues, p \in Ports, b \in BackendAddresses,
          bl \in SUBSET IPs, wl \in SUBSET IPs :
          (/\ StartProxy(n, m, p, b, bl, wl)
           /\ ~StartProxyOn(Mgr, n, m, p, b, bl, wl).raised)
          => /\ m \in Modes
             /\ n \in DOMAIN Mgr'[m]
             /\ Mgr'[m][n].status = "running"]_vars

\* C38 for the three modes create_proxy knows.
C38_KnownModes ==
    [][\A n \in Names, m \in Modes, p \in Ports, b \in BackendAddresses,
          bl \in SUBSET IPs, wl \in SUBSET IPs :
          (/\ StartProxy(n, m, p, b, bl, wl)
           /\ ~StartProxyOn(Mgr, n, m, p, b, bl, wl).raised)
          => /\ n \in DOMAIN Mgr'[m]
             /\ Mgr'[m][n].status = "running"]_vars


\* C39: at an HTTP frontend the failed requests never outnumber the requests
\* counted in total.
C39_FailedWithinTotal ==
    "http" \in DOMAIN failed => failed["http"] <= total["http"]


\* C37: built from the same rows, the frontend of the start-up load and the
\* frontend of reload_single are both started, have the same listener-side
\* TLS setting and select the same upstream (host, port, TLS) for every Host
\* header.
C37_LoadersAgree ==
    (built # <<>> /\ built["load"].called /\ built["reload_single"].called)
    => /\ built["reload_single"].started = built["load"].started
       /\ built["reload_single"].use_https = built["load"].use_https
       /\ \A hdr \in HostHeaders :
             Resolve(built["reload_single"], hdr).upstream
                 = Resolve(built["load"], hdr).upstream

\* C37 for the body of reload_single_proxy_from_db past the calls of the
\* methods the store does not have.
C37_BodiesAgree ==
    (built # <<>> /\ db.proxy.default_backend_id # 0)
    => /\ ReloadBody(db).use_https = LoadedFrontend(db).use_https
       /\ \A hdr \in HostHeaders :
             Resolve(ReloadBody(db), hdr).upstream
                 = Resolve(LoadedFrontend(db), hdr).upstream


====
